---- MODULE Spec2Model ----
(***************************************************************************)
(* AdhaanLive coordination engine: the detection threads and their frame   *)
(* loops (core/detector.py), the stream refresher (core/stream_refresher), *)
(* the playback manager (core/playback.py) and the consumers of the cached *)
(* stream URL (main.py).                                                   *)
(*                                                                         *)
(* Units.  rms values and thresholds are integers in units of 1e-4 of full *)
(* scale (0.05 is 500).  consecutive_high is kept in half seconds, so the  *)
(* code's +1.0 is +2 and its -0.5 is -1.  Refresher times are in seconds.  *)
(***************************************************************************)
EXTENDS Integers, Sequences, FiniteSets, TLC

\* ---------------------------------------------------------------- bounds
\* Detection threads ever created in one behaviour.
MaxThreads == 2
\* consecutive empty reads counted at most
EmptyReadsCap == 3
\* Frames counted by the session clock of the hard-cap check.
ElapsedCap == 310

\* Stream URLs the page can hand out in one behaviour; later fetches fail.
MaxUrls == 3
\* Seconds past the assumed expiry the refresher is followed for.
MaxOverdue == 120
\* Frame reads under a raised stop flag that are counted per thread.
StopReadsCap == 2
\* Playback runner threads and ffplay processes in one behaviour; the
\* processes of a behaviour with concurrent runners.
MaxRunners == 3
MaxProcs == 5
PlaybackProcs == 2
\* Ambient monitor threads in one behaviour.
MaxAmb == 3

\* ------------------------------------------------------------- constants
\* stream_refresher.py:67
PREFETCH_WINDOW == 600
\* stream_refresher.py:68
SWAP_CUTOFF == 30
\* stream_refresher.py:69
REFRESH_INTERVAL == 60
\* stream_refresher.py:88, 104, 131, 140, 153: timedelta(hours=2), in seconds
ASSUMED_VALIDITY == 7200
\* testing.py:5: exp - iat of the token embedded in a stream URL, in seconds
TOKEN_VALIDITY == 7200
\* playback.py:23
max_retries == 3
\* detector.py:250 and :257, threshold=0.05
threshold == 500
\* detector.py:110, min_duration_above_threshold = 2.0 (seconds)
min_duration_above_threshold == 2
\* detector.py:257, required_silence=7
required_silence == 7
\* detector.py:179, pre_buffer_secs: int = 5
pre_buffer_secs == 5
\* detector.py:180, post_buffer_secs: int = 5
post_buffer_secs == 5
\* detector.py:23, AMBIENT_STATE["rms"] before any sample: 0.0003
AMBIENT_DEFAULT_RMS == 3
\* spec section 4.1: the hard cap on a session, in frames of one second
MAX_SESSION_SECONDS == 300

Threads == 1..MaxThreads
Callers == {"watcher", "scheduler"}
Runners == 1..MaxRunners
Procs == 1..MaxProcs
Ambs == 1..MaxAmb
\* Stream URLs passed to the PlaybackManager
PbUrls == {1, 2}
\* rms of one frame; 200, 300 and 500 sit exactly on the thresholds used.
Levels == {100, 200, 300, 500, 2000}
\* rms values the ambient monitor can publish
AmbientLevels == {AMBIENT_DEFAULT_RMS, 100}

Max(a, b) == IF a >= b THEN a ELSE b

\* Names of the events of a prayer table, in the order of the JSON object.
PrayerOrder == <<"Fajr", "Dhuhr", "Isha">>
PrayerNames == {PrayerOrder[i] : i \in 1..Len(PrayerOrder)}
\* A missing key of the table
NoEntry == <<>>
\* Time strings of a table: <<hour field, minute field>> of "%H:%M:%S" (the
\* seconds are 00), or text with no such fields.
TimeStrings == {<<5, 30>>, <<13, 0>>, <<19, 45>>, <<24, 0>>, <<13, 60>>, <<13>>}
\* now, minutes since midnight
NowTimes == {0, 330, 780, 800, 1185, 1300}
\* get_next_prayer has not returned
NoPrayer == [name |-> "", day |-> 0, at |-> 0]

\* lastRms when the frames are not kept
NoFrame == -1

\* emptyReads when the empty reads are not counted
NoCount == -1

\* artifact when the frames of the end phase are not kept
NoArtifact == <<NoFrame>>

VARIABLES
    \* --- core/detector.py
    ambient_rms,        \* AMBIENT_STATE["rms"]
    detection_thread,   \* _detection_thread: 0 is None, else a thread id
    detection_stop,     \* _detection_stop (threading.Event)
    nthreads,           \* threads created so far
    dpc,                \* position of each detection thread
    ffmpeg,             \* the frame source of the thread's current phase
    eff_threshold,      \* detect_audio_start's effective_threshold
    consecutive_high,   \* detect_audio_start's consecutive_high, half seconds
    silence_counter,    \* detect_audio_end's silence_counter
    started,            \* _run_full_detection's started
    ended,              \* _run_full_detection's ended
    startEvents,        \* rows "start" written to the CSV log by the session
    endEvents,          \* rows "end" written to the CSV log by the session
    allLow,             \* no frame of detect_audio_start was above the threshold
    heard,              \* detect_audio_start has read at least one frame
    onsetSeen,          \* consecutive_high has reached 2 s in this session
    silenceSeen,        \* silence_counter has reached 7 frames in this session
    stopReads,          \* frames the thread read while _detection_stop was set
    \* --- the endpoint handed from thread to thread
    durl,               \* stream_url of each detection thread (0: none)
    carg,               \* stream_url argument of each caller's start_audio_detection
    sched_url,          \* prayer_scheduler_loop's local stream_url
    \* --- stream watcher (src/main.py, monitor_stream_updates)
    wpc,                \* position of the watcher thread ("off": not started)
    last_url,           \* its local last_url
    new_url,            \* its local new_url
    emptyReads,         \* consecutive empty reads of each thread's frame loop (NoCount: not kept)
    lastRms,            \* rms of the last frame a frame loop read (NoFrame: not kept)
    buffer,             \* detect_audio_end's buffer: arrival numbers of the frames it holds
    artifact,           \* frames of the WAV file written at the confirmed end, per session
    wasActive,          \* adhaan_active was set since the newest thread was created
    elapsed,            \* frames read by detect_audio_end (session clock)
    clocked,            \* whether the session clock is being observed
    adhaan_active,      \* what is_adhaan_active() returns
    state_adhaan_active,\* RuntimeState.adhaan_active (the status surface)
    \* --- callers of start_audio_detection / stop_audio_detection
    cpc, cop, ctarget,
    \* --- core/stream_refresher.py
    cacheFile,          \* assets/current_stream.txt: 0 is empty or missing, else a URL
    rpc,                \* position of smart_refresh_loop
    cached_url,         \* smart_refresh_loop's cached_url (0 is None or "")
    next_url,           \* smart_refresh_loop's next_url (0 is None)
    prefetch_done,      \* smart_refresh_loop's prefetch_done
    expiry_known,       \* expiry_time is not None
    time_left,          \* expiry_time - now, seconds
    trueLeft,           \* seconds until the exp of the token in the cache file
    nextTrueLeft,       \* seconds until the exp of the token in next_url
    nfetch,             \* URLs handed out so far
    lastRead,           \* the last URL a consumer read from the cache file
    lastStep,           \* what the refresh check before this sleep did
    lastFetch,          \* what get_new_url_func did in that check
    \* --- core/playback.py, one PlaybackManager
    proc,               \* self._proc: 0 is None, else a process
    lock,               \* self._lock: "free" or the caller holding it
    runner_thread,      \* self._runner_thread: 0 is None, else a runner
    stop_flag,          \* self._stop_flag
    current_url,        \* self._current_url: 0 is None
    retries,            \* self._retries
    procState,          \* per ffplay process: "none", "alive", "exited"
    procUrl,            \* per ffplay process: the URL it was spawned with
    procBudget,         \* processes that can be spawned in this behaviour
    seenAlive,          \* what the last PLAYBACK.is_alive() returned
    \* --- prayer scheduler (src/core/prayer_scheduler.py)
    spc,                \* position of the scheduler thread ("off": not started)
    detection_flag,     \* the Event handed to prayer_scheduler_loop
    name_bound,         \* the local `name` has been assigned (line 72)
    sched_event,        \* last event the scheduler passed to log_event
    triggered,          \* adhaan_active was true before the timeout loop ended
    nprocs,             \* processes spawned so far
    rnpc,               \* per runner thread: its position in _run_loop
    rnurl,              \* per runner thread: the local url of _run_loop
    nrunners,           \* runner threads created so far
    ppc,                \* per caller: its position in start / stop / restart
    parg,               \* per caller: the url argument
    ptarget,            \* per caller: the thread it joins
    \* --- get_next_prayer (src/core/prayer_scheduler.py)
    prayers,            \* the table passed in: per name its time string, or NoEntry
    now_t,              \* datetime.now(), minutes since midnight of today
    next_prayer,        \* what get_next_prayer returned (NoPrayer: not called yet)
    \* --- ambient monitor (src/core/detector.py) and its callers
    amb_running,        \* AMBIENT_STATE["running"]
    namb,               \* ambient monitor threads created so far (NoCount: not followed)
    apc,                \* per ambient monitor thread: its position in _ambient_monitor_loop
    aurl,               \* per ambient monitor thread: its stream_url
    ambient_from,       \* stream the published AMBIENT_STATE was sampled from (0: no sample yet)
    amb_arg,            \* stream_url of the latest start_ambient_monitor call (0: none)
    ambient_flag,       \* main.py's ambient_active_flag
    \* --- watchdog (src/main.py, watchdog_monitor)
    gpc,                \* position of the watchdog thread ("off": not started)
    g_url               \* its local url

detVars == <<ambient_rms, detection_thread, detection_stop, nthreads, dpc, ffmpeg,
             eff_threshold, consecutive_high, silence_counter, started, ended,
             startEvents, endEvents, allLow, heard, onsetSeen, silenceSeen,
             stopReads, wasActive, lastRms, buffer, artifact, elapsed, clocked,
             adhaan_active, state_adhaan_active>>
callVars == <<cpc, cop, ctarget>>

refVars == <<cacheFile, rpc, cached_url, next_url, prefetch_done, expiry_known,
             time_left, trueLeft, nextTrueLeft, nfetch, lastRead, lastStep, lastFetch>>
pbVars == <<proc, lock, runner_thread, stop_flag, current_url, retries, procState, procUrl,
            procBudget, seenAlive,
            nprocs, rnpc, rnurl, nrunners, ppc, parg, ptarget>>

schedVars == <<spc, detection_flag, name_bound, sched_event, triggered>>

srcVars == <<emptyReads>>
urlVars == <<durl, carg, sched_url>>
watchVars == <<wpc, last_url, new_url>>
tblVars == <<prayers, now_t, next_prayer>>
ambVars == <<amb_running, namb, apc, aurl, ambient_from, amb_arg, ambient_flag>>
dogVars == <<gpc, g_url>>
moreVars == <<tblVars, ambVars, dogVars>>

vars == <<detVars, callVars, refVars, pbVars, schedVars, srcVars, urlVars, watchVars, moreVars>>

\* ------------------------------------------------------------------ Init
DetFields ==
    /\ ambient_rms = AMBIENT_DEFAULT_RMS
    /\ detection_thread = 0
    /\ detection_stop = FALSE
    /\ nthreads = 0
    /\ dpc = [t \in Threads |-> "none"]
    /\ ffmpeg = [t \in Threads |-> "none"]
    /\ eff_threshold = [t \in Threads |-> 0]
    /\ consecutive_high = [t \in Threads |-> 0]
    /\ silence_counter = [t \in Threads |-> 0]
    /\ started = [t \in Threads |-> FALSE]
    /\ ended = [t \in Threads |-> FALSE]
    /\ startEvents = [t \in Threads |-> 0]
    /\ endEvents = [t \in Threads |-> 0]
    /\ allLow = [t \in Threads |-> TRUE]
    /\ heard = [t \in Threads |-> FALSE]
    /\ onsetSeen = [t \in Threads |-> FALSE]
    /\ silenceSeen = [t \in Threads |-> FALSE]
    /\ stopReads = [t \in Threads |-> 0]
    /\ wasActive = FALSE
    /\ durl = [t \in Threads |-> 0]
    /\ buffer = [t \in Threads |-> <<>>]
    /\ elapsed = [t \in Threads |-> 0]
    /\ clocked \in BOOLEAN
    /\ adhaan_active = FALSE
    /\ state_adhaan_active = FALSE

DetInit ==
    /\ DetFields /\ lastRms = NoFrame /\ emptyReads = [t \in Threads |-> NoCount]
    /\ artifact = [t \in Threads |-> NoArtifact]

\* The frames detect_audio_end holds are followed for thread t.
FramesKept(t) == artifact[t] # NoArtifact

CallInit ==
    /\ cpc = [c \in Callers |-> "idle"]
    /\ cop = [c \in Callers |-> "none"]
    /\ ctarget = [c \in Callers |-> 0]
    /\ carg = [c \in Callers |-> 0]

\* smart_refresh_loop has not run yet; the cache file is what the last run
\* left: nothing, or a URL whose token is still valid or already expired.
RefInit ==
    /\ cacheFile \in {0, 1}
    /\ trueLeft \in (IF cacheFile = 0 THEN {0} ELSE {-600, 3600})
    /\ nfetch = cacheFile
    /\ rpc = "boot"
    /\ cached_url = 0
    /\ next_url = 0
    /\ prefetch_done = FALSE
    /\ expiry_known = FALSE
    /\ time_left = 0
    /\ nextTrueLeft = 0
    /\ lastRead = 0
    /\ lastStep = "none"
    /\ lastFetch = "skip"

\* PlaybackManager.__init__ (playback.py:31-36); no call is in progress.
PbFields ==
    /\ proc = 0
    /\ lock = "free"
    /\ runner_thread = 0
    /\ stop_flag = FALSE
    /\ current_url = 0
    /\ retries = 0
    /\ procState = [p \in Procs |-> "none"]
    /\ procUrl = [p \in Procs |-> 0]
    /\ nprocs = 0
    /\ rnpc = [r \in Runners |-> "none"]
    /\ rnurl = [r \in Runners |-> 0]
    /\ nrunners = 0
    /\ ppc = [c \in Callers |-> "idle"]
    /\ parg = [c \in Callers |-> 0]
    /\ ptarget = [c \in Callers |-> 0]

PbInit == PbFields /\ procBudget = PlaybackProcs /\ seenAlive = FALSE

\* prayer_scheduler_loop before its first statement; "off" when
\* start_prayer_scheduler is not called.
TableFields ==
    /\ prayers = [n \in PrayerNames |-> NoEntry]
    /\ now_t = 0
    /\ next_prayer = NoPrayer

SchedFields ==
    /\ TableFields
    /\ detection_flag = FALSE
    /\ name_bound = FALSE
    /\ sched_event = "none"
    /\ triggered = FALSE
    /\ sched_url = 0

\* monitor_stream_updates before its first statement (main.py:109); "off"
\* when the watcher thread is not part of the behaviour.
\* detector.py:23: no ambient monitor thread, "running" False, no sample yet.
AmbFields ==
    /\ amb_running = FALSE
    /\ apc = [a \in Ambs |-> "none"]
    /\ aurl = [a \in Ambs |-> 0]
    /\ ambient_from = 0
    /\ amb_arg = 0
    /\ ambient_flag = FALSE

\* The ambient monitor threads are not followed and the watchdog is not
\* running.
AmbOff == AmbFields /\ namb = NoCount
DogOff == gpc = "off" /\ g_url = 0

WatchFields == last_url = 0 /\ new_url = 0

WatchOff == WatchFields /\ wpc = "off"

SchedOff == SchedFields /\ spc = "off"

Init == DetInit /\ CallInit /\ ~clocked /\ RefInit /\ cacheFile = 0 /\ PbInit /\ SchedOff /\ WatchOff /\ AmbOff /\ DogOff

\* ------------------------------------------------- core/detector.py, helpers
\* threading.Thread.is_alive()
is_alive(t) == t # 0 /\ dpc[t] \notin {"none", "dead"}

AliveThreads == {t \in Threads : is_alive(t)}

\* detector.py:117: max(ambient_rms * 3, threshold * 0.4)
effective_threshold(arms, thr) == Max(arms * 3, (thr * 4) \div 10)

\* The missing accessor pair of core.detector (stream_refresher.py:13 and
\* prayer_scheduler.py:11 import is_adhaan_active): modelled from section 4.1.
is_adhaan_active == adhaan_active
set_adhaan_active(v) == adhaan_active' = v

\* ------------------------------------------- core/detector.py, frame loops
\* Mutant of IsHigh: a frame exactly on the threshold counts as loud.
IsHigh_NotStrict(rms, thr) == rms >= thr

\* detector.py:145, a frame counts as loud
IsHigh(rms, thr) == rms > thr

\* Mutant of NextConsecutiveHigh: the decay is not clamped at zero.
NextConsecutiveHigh_NoClamp(ch, rms, thr) ==
    IF IsHigh(rms, thr) THEN ch + 2 ELSE ch - 1

\* detector.py:145-148: +1.0 when loud, otherwise -0.5 and never below zero
NextConsecutiveHigh(ch, rms, thr) ==
    IF IsHigh(rms, thr) THEN ch + 2 ELSE Max(0, ch - 1)

\* detector.py:150
OnsetReached(ch) == ch >= 2 * min_duration_above_threshold

\* detector.py:134-138, 197-201: a read that returns nothing while ffmpeg is
\* alive goes back to the read; the count of such reads in a row.
EmptyRead(n) == IF n = NoCount \/ n >= EmptyReadsCap THEN n ELSE n + 1

\* A read that returns a frame, or the end of the loop, ends the run of
\* empty reads.
FrameRead(n) == IF n = NoCount THEN n ELSE 0

\* detector.py:192 and 204: buffer = deque(maxlen=pre_buffer_secs) and
\* buffer.append(raw_audio); a full deque drops its oldest entry.
BufferAppend(b, f) ==
    IF Len(b) < pre_buffer_secs THEN Append(b, f) ELSE Append(Tail(b), f)

\* detector.py:215-220: the k chunks read after the silence condition was
\* met, which follow the n frames of the loop.
PostFrames(n, k) == [i \in 1..k |-> n + i]

\* detector.py:209, a frame counts as silent (the fixed threshold, not the
\* adaptive one)
IsSilent(rms, thr) == rms < thr

\* detector.py:209-212
NextSilence(sc, rms, thr) == IF IsSilent(rms, thr) THEN sc + 1 ELSE 0

\* Mutant of SilenceReached: one frame late.
SilenceReached_OffByOne(sc) == sc > required_silence

\* detector.py:214
SilenceReached(sc) == sc >= required_silence

\* A frame read made while _detection_stop is set is one more read after the
\* stop request (counted, like the session clock, when clocked).
ReadUnderStop(n) == IF clocked /\ detection_stop /\ n < StopReadsCap THEN n + 1 ELSE n

threadLocals == <<eff_threshold, consecutive_high, silence_counter, started, ended>>
recVars == <<buffer, artifact>>
ghosts == <<startEvents, endEvents, allLow, heard, onsetSeen, silenceSeen, stopReads, wasActive, lastRms, recVars>>
detGlobals == <<ambient_rms, detection_thread, detection_stop, nthreads>>
flags == <<adhaan_active, state_adhaan_active>>
clockVars == <<elapsed, clocked>>

\* _run_full_detection enters detect_audio_start: the threshold is computed
\* once from the ambient snapshot and ffmpeg is spawned (detector.py:116-129).
DetBegin(t) ==
    /\ dpc[t] = "begin"
    /\ eff_threshold' = [eff_threshold EXCEPT ![t] = effective_threshold(ambient_rms, threshold)]
    /\ consecutive_high' = [consecutive_high EXCEPT ![t] = 0]
    /\ ffmpeg' = [ffmpeg EXCEPT ![t] = "running"]
    /\ dpc' = [dpc EXCEPT ![t] = "listen_start"]
    /\ UNCHANGED <<silence_counter, started, ended, ghosts, detGlobals, flags, callVars, clockVars, refVars, pbVars, schedVars, srcVars, urlVars, watchVars, moreVars>>

\* One non-empty read of detect_audio_start's loop (detector.py:133-150).
StartFrame(t, rms) ==
    /\ dpc[t] = "listen_start"
    /\ ffmpeg[t] = "running"
    /\ LET ch == NextConsecutiveHigh(consecutive_high[t], rms, eff_threshold[t]) IN
        /\ consecutive_high' = [consecutive_high EXCEPT ![t] = ch]
        /\ allLow' = [allLow EXCEPT ![t] = allLow[t] /\ rms <= eff_threshold[t]]
        /\ heard' = [heard EXCEPT ![t] = TRUE]
        /\ onsetSeen' = [onsetSeen EXCEPT ![t] = @ \/ ch >= 2 * min_duration_above_threshold]
        /\ dpc' = [dpc EXCEPT ![t] = IF OnsetReached(ch) THEN "post_start" ELSE "listen_start"]
    /\ lastRms' = IF lastRms = NoFrame THEN NoFrame ELSE rms
    /\ UNCHANGED recVars
    /\ stopReads' = [stopReads EXCEPT ![t] = ReadUnderStop(@)]
    /\ UNCHANGED <<ffmpeg, eff_threshold, silence_counter, started, ended,
                   startEvents, endEvents, silenceSeen, wasActive, detGlobals, flags,
                   callVars, clockVars, refVars, pbVars, schedVars, urlVars, watchVars, moreVars>>
    /\ emptyReads' = [emptyReads EXCEPT ![t] = FrameRead(@)]

\* detect_audio_start returns v (detector.py:164-165, 169-171): ffmpeg is
\* terminated and the function's locals are gone.
StartReturn(t, v) ==
    /\ dpc' = [dpc EXCEPT ![t] = "start_ret"]
    /\ started' = [started EXCEPT ![t] = v]
    /\ ffmpeg' = [ffmpeg EXCEPT ![t] = "none"]
    /\ eff_threshold' = [eff_threshold EXCEPT ![t] = 0]
    /\ consecutive_high' = [consecutive_high EXCEPT ![t] = 0]

\* An empty read of detect_audio_start (detector.py:134-138): the loop goes
\* on while ffmpeg has not exited, and breaks and returns False once poll()
\* reports an exit.
StartEmpty(t) ==
    /\ dpc[t] = "listen_start"
    /\ ffmpeg[t] \in {"eof", "exited"}
    /\ IF ffmpeg[t] = "exited"
         THEN StartReturn(t, FALSE)
         ELSE UNCHANGED <<dpc, started, ffmpeg, eff_threshold, consecutive_high>>
    /\ UNCHANGED <<silence_counter, ended, ghosts, detGlobals, flags, callVars, clockVars, refVars, pbVars, schedVars, urlVars, watchVars, moreVars>>
    /\ emptyReads' = [emptyReads EXCEPT ![t] = IF ffmpeg[t] = "exited" THEN FrameRead(@) ELSE EmptyRead(@)]

\* An exception inside detect_audio_start's loop (detector.py:167-171): it is
\* logged, ffmpeg is terminated and False is returned.
StartError(t) ==
    /\ dpc[t] = "listen_start"
    /\ StartReturn(t, FALSE)
    /\ UNCHANGED <<silence_counter, ended, ghosts, detGlobals, flags, callVars, clockVars, refVars, pbVars, schedVars, srcVars, urlVars, watchVars, moreVars>>

\* Mutant of PostStart: the "start" row is logged but the function does not
\* return, and the frame loop goes on.
PostStart_NoReturn(t) ==
    /\ dpc[t] = "post_start"
    /\ startEvents' = [startEvents EXCEPT ![t] = @ + 1]
    /\ dpc' = [dpc EXCEPT ![t] = "listen_start"]
    /\ set_adhaan_active(TRUE)
    /\ wasActive' = TRUE
    /\ UNCHANGED <<lastRms, recVars>>
    /\ UNCHANGED <<ffmpeg, threadLocals, endEvents, allLow, heard, onsetSeen,
                   silenceSeen, stopReads, detGlobals, state_adhaan_active, callVars, clockVars, refVars, pbVars, schedVars, srcVars, urlVars, watchVars, moreVars>>

\* The onset is confirmed (detector.py:150-165): the post-buffer is read, the
\* snippet saved, one "start" row logged, ffmpeg terminated, True returned.
\* Section 4.1 sets adhaan_active here.
PostStart(t) ==
    /\ dpc[t] = "post_start"
    /\ startEvents' = [startEvents EXCEPT ![t] = @ + 1]
    /\ StartReturn(t, TRUE)
    /\ set_adhaan_active(TRUE)
    /\ wasActive' = TRUE
    /\ UNCHANGED <<lastRms, recVars>>
    /\ UNCHANGED <<silence_counter, ended, endEvents, allLow, heard, onsetSeen,
                   silenceSeen, stopReads, detGlobals, state_adhaan_active, callVars, clockVars, refVars, pbVars, schedVars, srcVars, urlVars, watchVars, moreVars>>

\* Mutant of ThreadExit: the thread ends without marking the session ended.
ThreadExit_KeepsActive(t) ==
    /\ dpc' = [dpc EXCEPT ![t] = "dead"]
    /\ started' = [started EXCEPT ![t] = FALSE]
    /\ ended' = [ended EXCEPT ![t] = FALSE]
    /\ startEvents' = [startEvents EXCEPT ![t] = 0]
    /\ endEvents' = [endEvents EXCEPT ![t] = 0]
    /\ allLow' = [allLow EXCEPT ![t] = TRUE]
    /\ heard' = [heard EXCEPT ![t] = FALSE]
    /\ onsetSeen' = [onsetSeen EXCEPT ![t] = FALSE]
    /\ silenceSeen' = [silenceSeen EXCEPT ![t] = FALSE]
    /\ stopReads' = [stopReads EXCEPT ![t] = 0]
    /\ UNCHANGED <<adhaan_active, wasActive, lastRms, recVars>>

\* _run_full_detection returns (detector.py:266-267): the thread is over and
\* its session data is gone.  Section 4.1 marks the session ended on every
\* exit.
ThreadExit(t) ==
    /\ dpc' = [dpc EXCEPT ![t] = "dead"]
    /\ started' = [started EXCEPT ![t] = FALSE]
    /\ ended' = [ended EXCEPT ![t] = FALSE]
    /\ startEvents' = [startEvents EXCEPT ![t] = 0]
    /\ endEvents' = [endEvents EXCEPT ![t] = 0]
    /\ allLow' = [allLow EXCEPT ![t] = TRUE]
    /\ heard' = [heard EXCEPT ![t] = FALSE]
    /\ onsetSeen' = [onsetSeen EXCEPT ![t] = FALSE]
    /\ silenceSeen' = [silenceSeen EXCEPT ![t] = FALSE]
    /\ stopReads' = [stopReads EXCEPT ![t] = 0]
    /\ set_adhaan_active(FALSE)
    /\ UNCHANGED <<wasActive, lastRms, recVars>>

\* _run_full_detection after detect_audio_start returned (detector.py:250-257):
\* return when nothing started or a stop was requested, else spawn the ffmpeg
\* of detect_audio_end (detector.py:184-193).
RunCheck(t) ==
    /\ dpc[t] = "start_ret"
    /\ IF ~started[t] \/ detection_stop
         THEN /\ ThreadExit(t)
              /\ UNCHANGED <<ffmpeg, silence_counter>>
         ELSE /\ dpc' = [dpc EXCEPT ![t] = "listen_end"]
              /\ ffmpeg' = [ffmpeg EXCEPT ![t] = "running"]
              /\ silence_counter' = [silence_counter EXCEPT ![t] = 0]
              /\ UNCHANGED <<started, ended, ghosts, adhaan_active>>
    /\ UNCHANGED <<eff_threshold, consecutive_high, detGlobals, state_adhaan_active, callVars, clockVars, refVars, pbVars, schedVars, srcVars, urlVars, watchVars, moreVars>>

\* One non-empty read of detect_audio_end's loop (detector.py:197-214).
EndFrame(t, rms) ==
    /\ dpc[t] = "listen_end"
    /\ ffmpeg[t] = "running"
    /\ LET sc == NextSilence(silence_counter[t], rms, threshold) IN
        /\ silence_counter' = [silence_counter EXCEPT ![t] = sc]
        /\ silenceSeen' = [silenceSeen EXCEPT ![t] = @ \/ sc >= required_silence]
        /\ dpc' = [dpc EXCEPT ![t] = IF SilenceReached(sc) THEN "post_end" ELSE "listen_end"]
    /\ lastRms' = IF lastRms = NoFrame THEN NoFrame ELSE rms
    /\ buffer' = [buffer EXCEPT ![t] = IF FramesKept(t) THEN BufferAppend(@, elapsed[t] + 1) ELSE @]
    /\ UNCHANGED artifact
    /\ stopReads' = [stopReads EXCEPT ![t] = ReadUnderStop(@)]
    /\ clocked => elapsed[t] < ElapsedCap
    /\ elapsed' = [elapsed EXCEPT ![t] = IF clocked THEN @ + 1 ELSE @]
    /\ UNCHANGED <<ffmpeg, eff_threshold, consecutive_high, started, ended,
                   startEvents, endEvents, allLow, heard, onsetSeen, wasActive, detGlobals,
                   flags, callVars, clocked, refVars, pbVars, schedVars, urlVars, watchVars, moreVars>>
    /\ emptyReads' = [emptyReads EXCEPT ![t] = FrameRead(@)]

\* detect_audio_end returns v (detector.py:228-229, 233-235).
EndReturn(t, v) ==
    /\ dpc' = [dpc EXCEPT ![t] = "end_ret"]
    /\ ended' = [ended EXCEPT ![t] = v]
    /\ ffmpeg' = [ffmpeg EXCEPT ![t] = "none"]
    /\ silence_counter' = [silence_counter EXCEPT ![t] = 0]
    /\ elapsed' = [elapsed EXCEPT ![t] = 0]

\* An empty read of detect_audio_end (detector.py:198-202).
EndEmpty(t) ==
    /\ dpc[t] = "listen_end"
    /\ ffmpeg[t] \in {"eof", "exited"}
    /\ IF ffmpeg[t] = "exited"
         THEN EndReturn(t, FALSE)
         ELSE UNCHANGED <<dpc, ended, ffmpeg, silence_counter, elapsed>>
    /\ UNCHANGED <<eff_threshold, consecutive_high, started, ghosts, detGlobals,
                   flags, callVars, clocked, refVars, pbVars, schedVars, urlVars, watchVars, moreVars>>
    /\ emptyReads' = [emptyReads EXCEPT ![t] = IF ffmpeg[t] = "exited" THEN FrameRead(@) ELSE EmptyRead(@)]

\* An exception inside detect_audio_end's loop (detector.py:231-235).
EndError(t) ==
    /\ dpc[t] = "listen_end"
    /\ EndReturn(t, FALSE)
    /\ UNCHANGED <<eff_threshold, consecutive_high, started, ghosts, detGlobals,
                   flags, callVars, clocked, refVars, pbVars, schedVars, srcVars, urlVars, watchVars, moreVars>>

\* The end is confirmed (detector.py:214-229): tail read, snippet saved, one
\* "end" row logged, True returned.  Section 4.1 clears adhaan_active here.
PostEnd(t) ==
    /\ dpc[t] = "post_end"
    /\ endEvents' = [endEvents EXCEPT ![t] = @ + 1]
    /\ EndReturn(t, TRUE)
    /\ set_adhaan_active(FALSE)
    /\ \E k \in 0..post_buffer_secs :
          artifact' = [artifact EXCEPT ![t] =
                          IF FramesKept(t) THEN buffer[t] \o PostFrames(elapsed[t], k) ELSE @]
    /\ buffer' = [buffer EXCEPT ![t] = <<>>]
    /\ UNCHANGED <<eff_threshold, consecutive_high, started, startEvents, allLow,
                   heard, onsetSeen, silenceSeen, stopReads, wasActive, lastRms, detGlobals, state_adhaan_active,
                   callVars, clocked, refVars, pbVars, schedVars, srcVars, urlVars, watchVars, moreVars>>

\* _run_full_detection after detect_audio_end returned (detector.py:258-267).
RunFinish(t) ==
    /\ dpc[t] = "end_ret"
    /\ ThreadExit(t)
    /\ UNCHANGED <<ffmpeg, eff_threshold, consecutive_high, silence_counter,
                   detGlobals, state_adhaan_active, callVars, clockVars, refVars, pbVars, schedVars, srcVars, urlVars, watchVars, moreVars>>

\* The frame source reaches end of stream: reads come back empty while the
\* process has not been reaped yet.
FfmpegEof(t) ==
    /\ ffmpeg[t] = "running"
    /\ dpc[t] \in {"listen_start", "listen_end"}
    /\ ffmpeg' = [ffmpeg EXCEPT ![t] = "eof"]
    /\ UNCHANGED <<dpc, threadLocals, ghosts, detGlobals, flags, callVars, clockVars, refVars, pbVars, schedVars, srcVars, urlVars, watchVars, moreVars>>

\* The frame source process exits: poll() is no longer None.
FfmpegExit(t) ==
    /\ ffmpeg[t] = "eof"
    /\ ffmpeg' = [ffmpeg EXCEPT ![t] = "exited"]
    /\ UNCHANGED <<dpc, threadLocals, ghosts, detGlobals, flags, callVars, clockVars, refVars, pbVars, schedVars, srcVars, urlVars, watchVars, moreVars>>

\* The ambient monitor publishes a sample (detector.py:58-70).
AmbientPublish(r) ==
    /\ ambient_rms # r
    /\ ambient_rms' = r
    /\ UNCHANGED <<detection_thread, detection_stop, nthreads, dpc, ffmpeg,
                   threadLocals, ghosts, flags, callVars, clockVars, refVars, pbVars, schedVars, srcVars, urlVars, watchVars, moreVars>>

\* ------------------------- core/detector.py, start/stop_audio_detection
\* Calls to start_audio_detection that have not created their thread yet.
StartsInFlight == Cardinality({c \in Callers : cop[c] = "start"})

\* The timed join can run out (detector.py:286, timeout=5) while the thread
\* sits in a frame loop or reads a 5 s post-buffer: the loops never look at
\* _detection_stop.
JoinCanTimeOut(t) == dpc[t] \in {"listen_start", "post_start", "listen_end", "post_end"}

\* A caller (stream watcher, scheduler, control API) enters
\* start_audio_detection (detector.py:270-273).
CallStart(c) ==
    /\ cpc[c] = "idle"
    /\ nthreads + StartsInFlight < MaxThreads
    /\ cop' = [cop EXCEPT ![c] = "start"]
    /\ cpc' = [cpc EXCEPT ![c] = "st_check"]
    /\ UNCHANGED <<ctarget, detGlobals, dpc, ffmpeg, threadLocals, ghosts, flags, clockVars, refVars, pbVars, schedVars, srcVars, urlVars, watchVars, moreVars>>

\* A caller enters stop_audio_detection (detector.py:280-282).
CallStop(c) ==
    /\ cpc[c] = "idle"
    /\ cop' = [cop EXCEPT ![c] = "stop"]
    /\ cpc' = [cpc EXCEPT ![c] = "st_check"]
    /\ UNCHANGED <<ctarget, detGlobals, dpc, ffmpeg, threadLocals, ghosts, flags, clockVars, refVars, pbVars, schedVars, srcVars, urlVars, watchVars, moreVars>>

\* detector.py:283-285: the liveness test and the stop request.
StopCheck(c) ==
    /\ cpc[c] = "st_check"
    /\ IF is_alive(detection_thread)
         THEN /\ detection_stop' = TRUE
              /\ cpc' = [cpc EXCEPT ![c] = "st_join"]
         ELSE /\ cpc' = [cpc EXCEPT ![c] = "st_none"]
              /\ UNCHANGED detection_stop
    /\ UNCHANGED <<cop, ctarget, ambient_rms, detection_thread, nthreads, dpc,
                   ffmpeg, threadLocals, ghosts, flags, clockVars, refVars, pbVars, schedVars, srcVars, urlVars, watchVars, moreVars>>

\* detector.py:286: _detection_thread is read again for the join.  Another
\* caller may have set it to None since the test, and the attribute access
\* then raises out of the call.
StopJoinCall(c) ==
    /\ cpc[c] = "st_join"
    /\ IF detection_thread = 0
         THEN /\ cpc' = [cpc EXCEPT ![c] = "idle"]
              /\ cop' = [cop EXCEPT ![c] = "none"]
              /\ UNCHANGED ctarget
         ELSE /\ cpc' = [cpc EXCEPT ![c] = "st_wait"]
              /\ ctarget' = [ctarget EXCEPT ![c] = detection_thread]
              /\ UNCHANGED cop
    /\ UNCHANGED <<detGlobals, dpc, ffmpeg, threadLocals, ghosts, flags, clockVars, refVars, pbVars, schedVars, srcVars, urlVars, watchVars, moreVars>>

\* detector.py:286: join(timeout=5) returns, the thread having exited or not.
StopJoinReturn(c) ==
    /\ cpc[c] = "st_wait"
    /\ ~is_alive(ctarget[c]) \/ JoinCanTimeOut(ctarget[c])
    /\ cpc' = [cpc EXCEPT ![c] = "st_none"]
    /\ ctarget' = [ctarget EXCEPT ![c] = 0]
    /\ UNCHANGED <<cop, detGlobals, dpc, ffmpeg, threadLocals, ghosts, flags, clockVars, refVars, pbVars, schedVars, srcVars, urlVars, watchVars, moreVars>>

\* detector.py:287: _detection_thread = None; stop_audio_detection returns.
StopForget(c) ==
    /\ cpc[c] = "st_none"
    /\ detection_thread' = 0
    /\ IF cop[c] = "start"
         THEN /\ cpc' = [cpc EXCEPT ![c] = "clear"]
              /\ UNCHANGED cop
         ELSE /\ cpc' = [cpc EXCEPT ![c] = "idle"]
              /\ cop' = [cop EXCEPT ![c] = "none"]
    /\ UNCHANGED <<ctarget, ambient_rms, detection_stop, nthreads, dpc, ffmpeg,
                   threadLocals, ghosts, flags, clockVars, refVars, pbVars, schedVars, srcVars, urlVars, watchVars, moreVars>>

\* detector.py:274: _detection_stop.clear()
StartClear(c) ==
    /\ cpc[c] = "clear"
    /\ detection_stop' = FALSE
    /\ cpc' = [cpc EXCEPT ![c] = "spawn"]
    /\ UNCHANGED <<cop, ctarget, ambient_rms, detection_thread, nthreads, dpc,
                   ffmpeg, threadLocals, ghosts, flags, clockVars, refVars, pbVars, schedVars, srcVars, urlVars, watchVars, moreVars>>

\* detector.py:275-276: the new thread is created, recorded and started.
StartSpawn(c) ==
    /\ cpc[c] = "spawn"
    /\ nthreads < MaxThreads
    /\ nthreads' = nthreads + 1
    /\ detection_thread' = nthreads + 1
    /\ dpc' = [dpc EXCEPT ![nthreads + 1] = "begin"]
    /\ cpc' = [cpc EXCEPT ![c] = "idle"]
    /\ cop' = [cop EXCEPT ![c] = "none"]
    /\ durl' = [durl EXCEPT ![nthreads + 1] = carg[c]]
    /\ wasActive' = FALSE
    /\ UNCHANGED <<lastRms, recVars>>
    /\ UNCHANGED <<ctarget, ambient_rms, detection_stop, ffmpeg, threadLocals,
                   startEvents, endEvents, allLow, heard, onsetSeen, silenceSeen,
                   stopReads, flags, clockVars, refVars, pbVars, schedVars, srcVars, carg, sched_url, watchVars, moreVars>>

\* ------------------------------------------------------ next-state relations
\* One step of detection thread t.
ThreadStep(t) ==
    \/ DetBegin(t)
    \/ \E rms \in Levels : StartFrame(t, rms)
    \/ StartEmpty(t)
    \/ StartError(t)
    \/ PostStart(t)
    \/ RunCheck(t)
    \/ \E rms \in Levels : EndFrame(t, rms)
    \/ EndEmpty(t)
    \/ EndError(t)
    \/ PostEnd(t)
    \/ RunFinish(t)
    \/ FfmpegEof(t)
    \/ FfmpegExit(t)

\* One step of a caller of the detection API.
CallerStep(c) ==
    \/ CallStart(c)
    \/ CallStop(c)
    \/ StopCheck(c)
    \/ StopJoinCall(c)
    \/ StopJoinReturn(c)
    \/ StopForget(c)
    \/ StartClear(c)
    \/ StartSpawn(c)

DetNext ==
    \/ \E t \in Threads : ThreadStep(t)
    \/ \E c \in Callers : CallerStep(c)
    \/ \E r \in AmbientLevels : AmbientPublish(r)

\* Detection threads, their callers and the ambient snapshot.
Spec == Init /\ [][DetNext]_vars

\* No detection thread is alive: a caller that starts detection now starts
\* the only session.
NoSession == AliveThreads = {}

\* Sessions one after the other: the watcher starts detection only when the
\* previous thread is over; stop requests and ambient samples come at any time.
SessionNext ==
    \/ \E t \in Threads : ThreadStep(t)
    \/ NoSession /\ CallStart("watcher")
    \/ CallStop("watcher")
    \/ StopCheck("watcher")
    \/ StopJoinCall("watcher")
    \/ StopJoinReturn("watcher")
    \/ StopForget("watcher")
    \/ StartClear("watcher")
    \/ StartSpawn("watcher")
    \/ \E r \in AmbientLevels : AmbientPublish(r)

SpecSession == Init /\ [][SessionNext]_vars

\* One session under the session clock.
CapInit == DetInit /\ CallInit /\ clocked /\ RefInit /\ cacheFile = 0 /\ PbInit /\ SchedOff /\ WatchOff /\ AmbOff /\ DogOff

CapNext ==
    \/ \E t \in Threads : ThreadStep(t)
    \/ nthreads = 0 /\ CallStart("watcher")
    \/ StopCheck("watcher")
    \/ StopForget("watcher")
    \/ StartClear("watcher")
    \/ StartSpawn("watcher")

SpecCap == CapInit /\ [][CapNext]_vars

\* One session under the session clock, with the frames detect_audio_end
\* holds in its buffer and the audio it writes at the confirmed end followed.
ArtifactInit ==
    /\ DetFields /\ lastRms = NoFrame /\ emptyReads = [t \in Threads |-> NoCount]
    /\ artifact = [t \in Threads |-> <<>>]
    /\ CallInit /\ clocked /\ RefInit /\ cacheFile = 0
    /\ PbInit /\ SchedOff /\ WatchOff /\ AmbOff /\ DogOff

SpecArtifact == ArtifactInit /\ [][CapNext]_vars

\* Sessions one after the other with the rms of each frame of
\* detect_audio_start kept.
FramesInit ==
    /\ DetFields /\ lastRms = 0 /\ emptyReads = [t \in Threads |-> NoCount]
    /\ artifact = [t \in Threads |-> NoArtifact]
    /\ CallInit /\ ~clocked
    /\ RefInit /\ cacheFile = 0
    /\ PbInit /\ SchedOff /\ WatchOff /\ AmbOff /\ DogOff

SpecFrames == FramesInit /\ [][SessionNext]_vars

\* Sessions one after the other with the empty reads of the frame loops
\* counted.
EmptyInit ==
    /\ DetFields /\ lastRms = NoFrame /\ emptyReads = [t \in Threads |-> 0]
    /\ artifact = [t \in Threads |-> NoArtifact]
    /\ CallInit /\ ~clocked
    /\ RefInit /\ cacheFile = 0
    /\ PbInit /\ SchedOff /\ WatchOff /\ AmbOff /\ DogOff

SpecEmpty == EmptyInit /\ [][SessionNext]_vars

\* Sessions one after the other with stop requests at any time, under the
\* session clock and the count of reads made after a stop request.
SpecStop == CapInit /\ [][SessionNext]_vars

\* ------------------------------------------------ core/stream_refresher.py
\* time_left stands for expiry_time - utcnow() at every position of the loop;
\* the clock moves only while the loop sleeps.  A URL is a positive number,
\* and every URL get_new_url_func returns carries a freshly issued token.

detRest == <<ambient_rms, detection_thread, detection_stop, nthreads, dpc, ffmpeg,
             threadLocals, ghosts, clockVars, state_adhaan_active>>

\* What one call of get_new_url_func can do (livestream.py:114-129): return a
\* URL, return None after its retries, or raise.
FetchOutcomes == IF nfetch < MaxUrls THEN {"url", "none", "raise"} ELSE {"none", "raise"}

\* time.sleep(REFRESH_INTERVAL) plus the time one check can take.
SleepDurations == {REFRESH_INTERVAL, REFRESH_INTERVAL + 30}

\* stream_refresher.py:73-79: the loop's locals; the cache file is read once.
Startup ==
    /\ rpc = "boot"
    /\ cached_url' = cacheFile
    /\ expiry_known' = FALSE
    /\ next_url' = 0
    /\ prefetch_done' = FALSE
    /\ rpc' = IF cacheFile = 0 THEN "fetch0" ELSE "top"
    /\ UNCHANGED <<cacheFile, time_left, trueLeft, nextTrueLeft, nfetch, lastRead,
                   lastStep, lastFetch, detVars, callVars, pbVars, schedVars, srcVars, urlVars, watchVars, moreVars>>

\* stream_refresher.py:81-93: the initial fetch when no URL is cached.
\* Writing None truncates the file; a raise sleeps and starts over.
InitialFetch(res) ==
    /\ rpc = "fetch0"
    /\ res \in FetchOutcomes
    /\ CASE res = "url" ->
              /\ cacheFile' = nfetch + 1
              /\ cached_url' = nfetch + 1
              /\ nfetch' = nfetch + 1
              /\ trueLeft' = TOKEN_VALIDITY
              /\ expiry_known' = TRUE
              /\ time_left' = ASSUMED_VALIDITY
              /\ rpc' = "top"
         [] res = "none" ->
              /\ cacheFile' = 0
              /\ cached_url' = 0
              /\ expiry_known' = TRUE
              /\ time_left' = ASSUMED_VALIDITY
              /\ rpc' = "top"
              /\ UNCHANGED <<nfetch, trueLeft>>
         [] res = "raise" ->
              /\ rpc' = "boot"
              /\ UNCHANGED <<cacheFile, cached_url, nfetch, trueLeft, expiry_known, time_left>>
    /\ lastFetch' = res
    /\ UNCHANGED <<next_url, prefetch_done, nextTrueLeft, lastRead, lastStep,
                   detVars, callVars, pbVars, schedVars, srcVars, urlVars, watchVars, moreVars>>

\* stream_refresher.py:113-118 with the cache write added to the prefetch.
Prefetch_WritesCache(res) ==
    CASE res = "url" ->
           /\ next_url' = nfetch + 1
           /\ nextTrueLeft' = TOKEN_VALIDITY
           /\ nfetch' = nfetch + 1
           /\ prefetch_done' = TRUE
           /\ cacheFile' = nfetch + 1
      [] res = "none" ->
           /\ next_url' = 0
           /\ nextTrueLeft' = 0
           /\ prefetch_done' = TRUE
           /\ UNCHANGED <<nfetch, cacheFile>>
      [] OTHER ->
           UNCHANGED <<next_url, nextTrueLeft, nfetch, prefetch_done, cacheFile>>

\* stream_refresher.py:113-118: the prefetch keeps its result in next_url.
Prefetch(res) ==
    CASE res = "url" ->
           /\ next_url' = nfetch + 1
           /\ nextTrueLeft' = TOKEN_VALIDITY
           /\ nfetch' = nfetch + 1
           /\ prefetch_done' = TRUE
           /\ UNCHANGED cacheFile
      [] res = "none" ->
           /\ next_url' = 0
           /\ nextTrueLeft' = 0
           /\ prefetch_done' = TRUE
           /\ UNCHANGED <<nfetch, cacheFile>>
      [] OTHER ->
           UNCHANGED <<next_url, nextTrueLeft, nfetch, prefetch_done, cacheFile>>

\* stream_refresher.py:111
PrefetchDue(tl, done) == tl < PREFETCH_WINDOW /\ ~done

\* stream_refresher.py:100-118: the top of one refresh check.
CheckTop(res) ==
    /\ rpc = "top"
    /\ LET tl == IF expiry_known THEN time_left ELSE ASSUMED_VALIDITY IN
        /\ time_left' = tl
        /\ expiry_known' = TRUE
        /\ IF PrefetchDue(tl, prefetch_done)
             THEN res \in FetchOutcomes
             ELSE res = "skip"
        /\ Prefetch(res)
    /\ lastFetch' = res
    /\ rpc' = "swap"
    /\ UNCHANGED <<cached_url, trueLeft, lastRead, lastStep, detVars, callVars, pbVars, schedVars, srcVars, urlVars, watchVars, moreVars>>

\* stream_refresher.py:136 with the comparison made non-strict.
SwapCutoffReached_Inclusive(tl) == tl <= SWAP_CUTOFF

\* stream_refresher.py:136
SwapCutoffReached(tl) == tl < SWAP_CUTOFF

\* Mutant of Activate: the pending slot is not emptied.
Activate_KeepsPending ==
    /\ cacheFile' = next_url
    /\ cached_url' = next_url
    /\ time_left' = ASSUMED_VALIDITY
    /\ trueLeft' = nextTrueLeft
    /\ UNCHANGED <<next_url, nextTrueLeft, prefetch_done, nfetch>>

\* stream_refresher.py:129-133 and 138-142: the pending URL is activated.
Activate ==
    /\ cacheFile' = next_url
    /\ cached_url' = next_url
    /\ time_left' = ASSUMED_VALIDITY
    /\ trueLeft' = nextTrueLeft
    /\ next_url' = 0
    /\ nextTrueLeft' = 0
    /\ prefetch_done' = FALSE
    /\ UNCHANGED nfetch

\* stream_refresher.py:149-155: the emergency fetch.
Emergency(res) ==
    CASE res = "url" ->
           /\ cacheFile' = nfetch + 1
           /\ cached_url' = nfetch + 1
           /\ nfetch' = nfetch + 1
           /\ trueLeft' = TOKEN_VALIDITY
           /\ time_left' = ASSUMED_VALIDITY
      [] res = "none" ->
           /\ cacheFile' = 0
           /\ cached_url' = 0
           /\ trueLeft' = 0
           /\ time_left' = ASSUMED_VALIDITY
           /\ UNCHANGED nfetch
      [] OTHER ->
           UNCHANGED <<cacheFile, cached_url, nfetch, trueLeft, time_left>>

\* stream_refresher.py:123-155: the swap logic and the emergency refresh of
\* one refresh check.
SwapStep(res) ==
    /\ rpc = "swap"
    /\ IF prefetch_done /\ next_url # 0
         THEN /\ res = "skip"
              /\ IF ~is_adhaan_active
                   THEN Activate /\ lastStep' = "idle_swap"
                   ELSE IF SwapCutoffReached(time_left)
                          THEN Activate /\ lastStep' = "forced_swap"
                          ELSE /\ lastStep' = "hold"
                               /\ UNCHANGED <<cacheFile, cached_url, time_left, trueLeft,
                                              next_url, nextTrueLeft, prefetch_done, nfetch>>
              /\ UNCHANGED lastFetch
         ELSE IF time_left <= 0
                THEN /\ res \in FetchOutcomes
                     /\ Emergency(res)
                     /\ lastStep' = "emergency"
                     /\ lastFetch' = res
                     /\ UNCHANGED <<next_url, nextTrueLeft, prefetch_done>>
                ELSE /\ res = "skip"
                     /\ lastStep' = "none"
                     /\ UNCHANGED <<cacheFile, cached_url, time_left, trueLeft, next_url,
                                    nextTrueLeft, prefetch_done, nfetch, lastFetch>>
    /\ rpc' = "sleep"
    /\ UNCHANGED <<expiry_known, lastRead, detVars, callVars, pbVars, schedVars, srcVars, urlVars, watchVars, moreVars>>

\* stream_refresher.py:157: the loop sleeps and the clock moves by d seconds.
Sleep(d) ==
    /\ rpc = "sleep"
    /\ time_left > -MaxOverdue
    /\ time_left' = time_left - d
    /\ trueLeft' = IF cacheFile # 0 THEN trueLeft - d ELSE 0
    /\ nextTrueLeft' = IF next_url # 0 THEN nextTrueLeft - d ELSE 0
    /\ lastStep' = "none"
    /\ lastFetch' = "skip"
    /\ rpc' = "top"
    /\ UNCHANGED <<cacheFile, cached_url, next_url, prefetch_done, expiry_known, nfetch,
                   lastRead, detVars, callVars, pbVars, schedVars, srcVars, urlVars, watchVars, moreVars>>

\* main.py:37-44: a consumer (the stream watcher, the scheduler, the watchdog)
\* reads the endpoint from the cache file.
ConsumerRead ==
    /\ lastRead' = cacheFile
    /\ lastRead # cacheFile
    /\ UNCHANGED <<cacheFile, rpc, cached_url, next_url, prefetch_done, expiry_known,
                   time_left, trueLeft, nextTrueLeft, nfetch, lastStep, lastFetch,
                   detVars, callVars, pbVars, schedVars, srcVars, urlVars, watchVars, moreVars>>

\* The detector enters or leaves a call-to-prayer session while the refresher
\* runs: all the refresher sees of the detector is the flag.
DetectorSetsActive(v) ==
    /\ v # adhaan_active
    /\ set_adhaan_active(v)
    /\ UNCHANGED <<detRest, callVars, refVars, pbVars, schedVars, srcVars, urlVars, watchVars, moreVars>>

RefreshInit == DetInit /\ CallInit /\ ~clocked /\ RefInit /\ PbInit /\ SchedOff /\ WatchOff /\ AmbOff /\ DogOff

RefreshNext ==
    \/ Startup
    \/ \E res \in {"url", "none", "raise"} : InitialFetch(res)
    \/ \E res \in {"url", "none", "raise", "skip"} : CheckTop(res)
    \/ \E res \in {"url", "none", "raise", "skip"} : SwapStep(res)
    \/ \E d \in SleepDurations : Sleep(d)
    \/ ConsumerRead
    \/ \E v \in BOOLEAN : DetectorSetsActive(v)

SpecRefresh == RefreshInit /\ [][RefreshNext]_vars

\* ------------------------------------------------------- core/playback.py
\* The lock is the RLock self._lock; a with-block that never waits is one
\* step, and start() keeps the lock over its join.  The stop flag, the retry
\* counter and the runner handle are also accessed without the lock.

notPb == <<detVars, callVars, refVars, procBudget>>
pbGhosts == <<seenAlive>>

\* proc.poll() is None
ProcAlive(p) == p # 0 /\ procState[p] = "alive"

\* Thread.is_alive() of a runner thread
runner_alive(r) == r # 0 /\ rnpc[r] \notin {"none", "dead"}

\* playback.py:170-184: terminate the process self._proc refers to, if it
\* still runs, and clear the handle.
stop_proc_locked ==
    /\ procState' = IF ProcAlive(proc) THEN [procState EXCEPT ![proc] = "exited"]
                    ELSE procState
    /\ proc' = 0

\* Calls of start() and restart() that have not created their runner yet.
SpawnsInFlight ==
    Cardinality({c \in Callers : ppc[c] \in {"s_lock", "s_runner", "s_join", "s_spawn",
                                             "r_lock", "r_check", "r_join", "r_wait",
                                             "r_clear", "r_spawn"}})

\* Where a runner blocks for as long as the lock is held.
NeedsLock(r) == rnpc[r] \in {"geturl", "spawn", "wait", "cleanup", "final"}

\* playback.py:62: join(timeout=2) under the lock gives up on a runner that
\* sleeps its retry delay (5 s) or waits for the lock the joiner holds.
JoinTimesOutLocked(r) == rnpc[r] = "delay" \/ (lock # "free" /\ NeedsLock(r))

\* playback.py:78, 91: join(timeout=5) gives up on a runner that entered its
\* retry delay (5 s) after the join began.
JoinTimesOut(r) == rnpc[r] = "delay"

\* A caller enters start(url) (playback.py:39).
PbCallStart(c, u) ==
    /\ ppc[c] = "idle"
    /\ nrunners + SpawnsInFlight < MaxRunners
    /\ ppc' = [ppc EXCEPT ![c] = "s_lock"]
    /\ parg' = [parg EXCEPT ![c] = u]
    /\ UNCHANGED <<proc, lock, runner_thread, stop_flag, current_url, retries, procState,
                   nprocs, procUrl, rnpc, rnurl, nrunners, ptarget, notPb, pbGhosts, schedVars, srcVars, urlVars, watchVars, moreVars>>

\* Mutant of PbStartLocked: the retry counter is not reset.
PbStartLocked_KeepsRetries(c) ==
    /\ ppc[c] = "s_lock"
    /\ lock = "free"
    /\ IF ProcAlive(proc) /\ current_url = parg[c]
         THEN /\ ppc' = [ppc EXCEPT ![c] = "idle"]
              /\ parg' = [parg EXCEPT ![c] = 0]
              /\ UNCHANGED <<proc, procState, lock, stop_flag, current_url, retries>>
         ELSE /\ IF ProcAlive(proc) THEN stop_proc_locked ELSE UNCHANGED <<proc, procState>>
              /\ stop_flag' = FALSE
              /\ current_url' = parg[c]
              /\ UNCHANGED retries
              /\ lock' = c
              /\ ppc' = [ppc EXCEPT ![c] = "s_runner"]
              /\ parg' = [parg EXCEPT ![c] = 0]
    /\ UNCHANGED <<runner_thread, nprocs, procUrl, rnpc, rnurl, nrunners, ptarget, notPb, pbGhosts, schedVars, srcVars, urlVars, watchVars, moreVars>>

\* playback.py:41-55: under the lock, start() returns if the URL already
\* plays, stops a process playing another URL, and resets the control state.
PbStartLocked(c) ==
    /\ ppc[c] = "s_lock"
    /\ lock = "free"
    /\ IF ProcAlive(proc) /\ current_url = parg[c]
         THEN /\ ppc' = [ppc EXCEPT ![c] = "idle"]
              /\ parg' = [parg EXCEPT ![c] = 0]
              /\ UNCHANGED <<proc, procState, lock, stop_flag, current_url, retries>>
         ELSE /\ IF ProcAlive(proc) THEN stop_proc_locked ELSE UNCHANGED <<proc, procState>>
              /\ stop_flag' = FALSE
              /\ current_url' = parg[c]
              /\ retries' = 0
              /\ lock' = c
              /\ ppc' = [ppc EXCEPT ![c] = "s_runner"]
              /\ parg' = [parg EXCEPT ![c] = 0]
    /\ UNCHANGED <<runner_thread, nprocs, procUrl, rnpc, rnurl, nrunners, ptarget, notPb, pbGhosts, schedVars, srcVars, urlVars, watchVars, moreVars>>

\* playback.py:58-61: a live runner is asked to stop.
PbStartRunnerCheck(c) ==
    /\ ppc[c] = "s_runner"
    /\ IF runner_alive(runner_thread)
         THEN /\ stop_flag' = TRUE
              /\ ptarget' = [ptarget EXCEPT ![c] = runner_thread]
              /\ ppc' = [ppc EXCEPT ![c] = "s_join"]
         ELSE /\ ppc' = [ppc EXCEPT ![c] = "s_spawn"]
              /\ UNCHANGED <<stop_flag, ptarget>>
    /\ UNCHANGED <<proc, lock, runner_thread, current_url, retries, procState, nprocs, procUrl,
                   rnpc, rnurl, nrunners, parg, notPb, pbGhosts, schedVars, srcVars, urlVars, watchVars, moreVars>>

\* playback.py:62: join(timeout=2) returns, the runner having exited or not.
PbStartJoinReturn(c) ==
    /\ ppc[c] = "s_join"
    /\ ~runner_alive(ptarget[c]) \/ JoinTimesOutLocked(ptarget[c])
    /\ ppc' = [ppc EXCEPT ![c] = "s_spawn"]
    /\ ptarget' = [ptarget EXCEPT ![c] = 0]
    /\ UNCHANGED <<proc, lock, runner_thread, stop_flag, current_url, retries, procState,
                   nprocs, procUrl, rnpc, rnurl, nrunners, parg, notPb, pbGhosts, schedVars, srcVars, urlVars, watchVars, moreVars>>

\* playback.py:64-68: the new runner is created and started; the lock is
\* released on return.
PbStartSpawn(c) ==
    /\ ppc[c] = "s_spawn"
    /\ nrunners < MaxRunners
    /\ nrunners' = nrunners + 1
    /\ runner_thread' = nrunners + 1
    /\ rnpc' = [rnpc EXCEPT ![nrunners + 1] = "loop"]
    /\ lock' = "free"
    /\ ppc' = [ppc EXCEPT ![c] = "idle"]
    /\ UNCHANGED <<proc, stop_flag, current_url, retries, procState, nprocs, procUrl, rnurl,
                   parg, ptarget, notPb, pbGhosts, schedVars, srcVars, urlVars, watchVars, moreVars>>

\* A caller enters stop() (playback.py:70).
PbCallStop(c) ==
    /\ ppc[c] = "idle"
    /\ ppc' = [ppc EXCEPT ![c] = "t_lock"]
    /\ UNCHANGED <<proc, lock, runner_thread, stop_flag, current_url, retries, procState,
                   nprocs, procUrl, rnpc, rnurl, nrunners, parg, ptarget, notPb, pbGhosts, schedVars, srcVars, urlVars, watchVars, moreVars>>

\* playback.py:72-74
PbStopLocked(c) ==
    /\ ppc[c] = "t_lock"
    /\ lock = "free"
    /\ stop_flag' = TRUE
    /\ stop_proc_locked
    /\ ppc' = [ppc EXCEPT ![c] = "t_check"]
    /\ UNCHANGED <<lock, runner_thread, current_url, retries, nprocs, procUrl, rnpc, rnurl,
                   nrunners, parg, ptarget, notPb, pbGhosts, schedVars, srcVars, urlVars, watchVars, moreVars>>

\* playback.py:77: the runner handle is tested outside the lock.
PbStopCheck(c) ==
    /\ ppc[c] = "t_check"
    /\ ppc' = [ppc EXCEPT ![c] = IF runner_alive(runner_thread) THEN "t_join" ELSE "t_none"]
    /\ UNCHANGED <<proc, lock, runner_thread, stop_flag, current_url, retries, procState,
                   nprocs, procUrl, rnpc, rnurl, nrunners, parg, ptarget, notPb, pbGhosts, schedVars, srcVars, urlVars, watchVars, moreVars>>

\* playback.py:78: the handle is read again for the join; if another stop()
\* has set it to None meanwhile the attribute access raises out of the call.
PbStopJoinCall(c) ==
    /\ ppc[c] = "t_join"
    /\ IF runner_thread = 0
         THEN /\ ppc' = [ppc EXCEPT ![c] = "idle"]
              /\ UNCHANGED ptarget
         ELSE /\ ppc' = [ppc EXCEPT ![c] = "t_wait"]
              /\ ptarget' = [ptarget EXCEPT ![c] = runner_thread]
    /\ UNCHANGED <<proc, lock, runner_thread, stop_flag, current_url, retries, procState,
                   nprocs, procUrl, rnpc, rnurl, nrunners, parg, notPb, pbGhosts, schedVars, srcVars, urlVars, watchVars, moreVars>>

\* playback.py:78: join(timeout=5) returns.
PbStopJoinReturn(c) ==
    /\ ppc[c] = "t_wait"
    /\ ~runner_alive(ptarget[c]) \/ JoinTimesOut(ptarget[c])
    /\ ppc' = [ppc EXCEPT ![c] = "t_none"]
    /\ ptarget' = [ptarget EXCEPT ![c] = 0]
    /\ UNCHANGED <<proc, lock, runner_thread, stop_flag, current_url, retries, procState,
                   nprocs, procUrl, rnpc, rnurl, nrunners, parg, notPb, pbGhosts, schedVars, srcVars, urlVars, watchVars, moreVars>>

\* playback.py:79-80
PbStopForget(c) ==
    /\ ppc[c] = "t_none"
    /\ runner_thread' = 0
    /\ ppc' = [ppc EXCEPT ![c] = "idle"]
    /\ UNCHANGED <<proc, lock, stop_flag, current_url, retries, procState, nprocs, procUrl, rnpc,
                   rnurl, nrunners, parg, ptarget, notPb, pbGhosts, schedVars, srcVars, urlVars, watchVars, moreVars>>

\* A caller enters restart(url); url 0 is None (playback.py:82).
PbCallRestart(c, u) ==
    /\ ppc[c] = "idle"
    /\ nrunners + SpawnsInFlight < MaxRunners
    /\ ppc' = [ppc EXCEPT ![c] = "r_lock"]
    /\ parg' = [parg EXCEPT ![c] = u]
    /\ UNCHANGED <<proc, lock, runner_thread, stop_flag, current_url, retries, procState,
                   nprocs, procUrl, rnpc, rnurl, nrunners, ptarget, notPb, pbGhosts, schedVars, srcVars, urlVars, watchVars, moreVars>>

\* playback.py:84-88
PbRestartLocked(c) ==
    /\ ppc[c] = "r_lock"
    /\ lock = "free"
    /\ current_url' = IF parg[c] # 0 /\ parg[c] # current_url THEN parg[c] ELSE current_url
    /\ stop_flag' = TRUE
    /\ stop_proc_locked
    /\ ppc' = [ppc EXCEPT ![c] = "r_check"]
    /\ parg' = [parg EXCEPT ![c] = 0]
    /\ UNCHANGED <<lock, runner_thread, retries, nprocs, procUrl, rnpc, rnurl, nrunners, ptarget, notPb, pbGhosts, schedVars, srcVars, urlVars, watchVars, moreVars>>

\* playback.py:90
PbRestartCheck(c) ==
    /\ ppc[c] = "r_check"
    /\ ppc' = [ppc EXCEPT ![c] = IF runner_alive(runner_thread) THEN "r_join" ELSE "r_clear"]
    /\ UNCHANGED <<proc, lock, runner_thread, stop_flag, current_url, retries, procState,
                   nprocs, procUrl, rnpc, rnurl, nrunners, parg, ptarget, notPb, pbGhosts, schedVars, srcVars, urlVars, watchVars, moreVars>>

\* playback.py:91: as in stop(), the handle is read again for the join.
PbRestartJoinCall(c) ==
    /\ ppc[c] = "r_join"
    /\ IF runner_thread = 0
         THEN /\ ppc' = [ppc EXCEPT ![c] = "idle"]
              /\ UNCHANGED ptarget
         ELSE /\ ppc' = [ppc EXCEPT ![c] = "r_wait"]
              /\ ptarget' = [ptarget EXCEPT ![c] = runner_thread]
    /\ UNCHANGED <<proc, lock, runner_thread, stop_flag, current_url, retries, procState,
                   nprocs, procUrl, rnpc, rnurl, nrunners, parg, notPb, pbGhosts, schedVars, srcVars, urlVars, watchVars, moreVars>>

\* playback.py:91: join(timeout=5) returns.
PbRestartJoinReturn(c) ==
    /\ ppc[c] = "r_wait"
    /\ ~runner_alive(ptarget[c]) \/ JoinTimesOut(ptarget[c])
    /\ ppc' = [ppc EXCEPT ![c] = "r_clear"]
    /\ ptarget' = [ptarget EXCEPT ![c] = 0]
    /\ UNCHANGED <<proc, lock, runner_thread, stop_flag, current_url, retries, procState,
                   nprocs, procUrl, rnpc, rnurl, nrunners, parg, notPb, pbGhosts, schedVars, srcVars, urlVars, watchVars, moreVars>>

\* playback.py:93-94
PbRestartClear(c) ==
    /\ ppc[c] = "r_clear"
    /\ stop_flag' = FALSE
    /\ retries' = 0
    /\ ppc' = [ppc EXCEPT ![c] = "r_spawn"]
    /\ UNCHANGED <<proc, lock, runner_thread, current_url, procState, nprocs, procUrl, rnpc, rnurl,
                   nrunners, parg, ptarget, notPb, pbGhosts, schedVars, srcVars, urlVars, watchVars, moreVars>>

\* playback.py:95-99
PbRestartSpawn(c) ==
    /\ ppc[c] = "r_spawn"
    /\ nrunners < MaxRunners
    /\ nrunners' = nrunners + 1
    /\ runner_thread' = nrunners + 1
    /\ rnpc' = [rnpc EXCEPT ![nrunners + 1] = "loop"]
    /\ ppc' = [ppc EXCEPT ![c] = "idle"]
    /\ UNCHANGED <<proc, lock, stop_flag, current_url, retries, procState, nprocs, procUrl, rnurl,
                   parg, ptarget, notPb, pbGhosts, schedVars, srcVars, urlVars, watchVars, moreVars>>

\* playback.py:112: the loop test of _run_loop.
RunLoopTest(r) ==
    /\ rnpc[r] = "loop"
    /\ rnpc' = [rnpc EXCEPT ![r] = IF stop_flag THEN "final" ELSE "geturl"]
    /\ UNCHANGED <<proc, lock, runner_thread, stop_flag, current_url, retries, procState,
                   nprocs, procUrl, rnurl, nrunners, ppc, parg, ptarget, notPb, pbGhosts, schedVars, srcVars, urlVars, watchVars, moreVars>>

\* playback.py:113-117: the URL is read under the lock; without a URL the
\* runner sleeps a second and tests the loop again.
RunGetUrl(r) ==
    /\ rnpc[r] = "geturl"
    /\ lock = "free"
    /\ rnurl' = [rnurl EXCEPT ![r] = current_url]
    /\ rnpc' = [rnpc EXCEPT ![r] = IF current_url = 0 THEN "loop" ELSE "spawn"]
    /\ UNCHANGED <<proc, lock, runner_thread, stop_flag, current_url, retries, procState,
                   nprocs, procUrl, nrunners, ppc, parg, ptarget, notPb, pbGhosts, schedVars, srcVars, urlVars, watchVars, moreVars>>

\* Mutant of RunSpawn: a missing binary is handled like any other error.
RunSpawn_NotFoundRetries(r, outcome) ==
    /\ rnpc[r] = "spawn"
    /\ lock = "free"
    /\ IF outcome = "ok"
         THEN /\ nprocs < procBudget
              /\ nprocs' = nprocs + 1
              /\ proc' = nprocs + 1
              /\ procState' = [procState EXCEPT ![nprocs + 1] = "alive"]
              /\ procUrl' = [procUrl EXCEPT ![nprocs + 1] = rnurl[r]]
              /\ rnpc' = [rnpc EXCEPT ![r] = "wait"]
         ELSE /\ rnpc' = [rnpc EXCEPT ![r] = "cleanup"]
              /\ UNCHANGED <<nprocs, procUrl, proc, procState>>
    /\ rnurl' = [rnurl EXCEPT ![r] = 0]
    /\ UNCHANGED <<lock, runner_thread, stop_flag, current_url, retries, nrunners, ppc,
                   parg, ptarget, notPb, pbGhosts, schedVars, srcVars, urlVars, watchVars, moreVars>>

\* playback.py:119-124, 143-147: ffplay is spawned under the lock and the
\* handle overwritten; a missing binary ends the loop, any other error goes
\* to the cleanup.
RunSpawn(r, outcome) ==
    /\ rnpc[r] = "spawn"
    /\ lock = "free"
    /\ CASE outcome = "ok" ->
              /\ nprocs < procBudget
              /\ nprocs' = nprocs + 1
              /\ proc' = nprocs + 1
              /\ procState' = [procState EXCEPT ![nprocs + 1] = "alive"]
              /\ procUrl' = [procUrl EXCEPT ![nprocs + 1] = rnurl[r]]
              /\ rnpc' = [rnpc EXCEPT ![r] = "wait"]
         [] outcome = "notfound" ->
              /\ rnpc' = [rnpc EXCEPT ![r] = "final"]
              /\ UNCHANGED <<nprocs, procUrl, proc, procState>>
         [] OTHER ->
              /\ rnpc' = [rnpc EXCEPT ![r] = "cleanup"]
              /\ UNCHANGED <<nprocs, procUrl, proc, procState>>
    /\ rnurl' = [rnurl EXCEPT ![r] = 0]
    /\ UNCHANGED <<lock, runner_thread, stop_flag, current_url, retries, nrunners, ppc,
                   parg, ptarget, notPb, pbGhosts, schedVars, srcVars, urlVars, watchVars, moreVars>>

\* playback.py:127-141: the runner polls until a stop is requested, the
\* handle is gone or the process it refers to has exited.
RunWait(r) ==
    /\ rnpc[r] = "wait"
    /\ stop_flag \/ (lock = "free" /\ ~ProcAlive(proc))
    /\ rnpc' = [rnpc EXCEPT ![r] = "cleanup"]
    /\ UNCHANGED <<proc, lock, runner_thread, stop_flag, current_url, retries, procState,
                   nprocs, procUrl, rnurl, nrunners, ppc, parg, ptarget, notPb, pbGhosts, schedVars, srcVars, urlVars, watchVars, moreVars>>

\* playback.py:150-151
RunCleanup(r) ==
    /\ rnpc[r] = "cleanup"
    /\ lock = "free"
    /\ stop_proc_locked
    /\ rnpc' = [rnpc EXCEPT ![r] = "chk"]
    /\ UNCHANGED <<lock, runner_thread, stop_flag, current_url, retries, nprocs, procUrl, rnurl,
                   nrunners, ppc, parg, ptarget, notPb, pbGhosts, schedVars, srcVars, urlVars, watchVars, moreVars>>

\* Mutant of RunRetryCheck: the runner gives up one retry early.
RunRetryCheck_OneShort(r) ==
    /\ rnpc[r] = "chk"
    /\ IF stop_flag
         THEN /\ rnpc' = [rnpc EXCEPT ![r] = "final"]
              /\ UNCHANGED retries
         ELSE /\ retries' = retries + 1
              /\ rnpc' = [rnpc EXCEPT ![r] = IF retries + 1 >= max_retries THEN "final"
                                             ELSE "delay"]
    /\ UNCHANGED <<proc, lock, runner_thread, stop_flag, current_url, procState, nprocs,
                   procUrl, rnurl, nrunners, ppc, parg, ptarget, notPb, pbGhosts, schedVars, srcVars, urlVars, watchVars, moreVars>>

\* playback.py:153-160: stop requested, or one more retry counted.
RunRetryCheck(r) ==
    /\ rnpc[r] = "chk"
    /\ IF stop_flag
         THEN /\ rnpc' = [rnpc EXCEPT ![r] = "final"]
              /\ UNCHANGED retries
         ELSE /\ retries' = retries + 1
              /\ rnpc' = [rnpc EXCEPT ![r] = IF retries + 1 > max_retries THEN "final"
                                             ELSE "delay"]
    /\ UNCHANGED <<proc, lock, runner_thread, stop_flag, current_url, procState, nprocs, procUrl,
                   rnurl, nrunners, ppc, parg, ptarget, notPb, pbGhosts, schedVars, srcVars, urlVars, watchVars, moreVars>>

\* playback.py:164: the retry delay is over.
RunDelayDone(r) ==
    /\ rnpc[r] = "delay"
    /\ rnpc' = [rnpc EXCEPT ![r] = "loop"]
    /\ UNCHANGED <<proc, lock, runner_thread, stop_flag, current_url, retries, procState,
                   nprocs, procUrl, rnurl, nrunners, ppc, parg, ptarget, notPb, pbGhosts, schedVars, srcVars, urlVars, watchVars, moreVars>>

\* playback.py:167-168: the final cleanup; the runner thread ends.
RunFinal(r) ==
    /\ rnpc[r] = "final"
    /\ lock = "free"
    /\ stop_proc_locked
    /\ rnpc' = [rnpc EXCEPT ![r] = "dead"]
    /\ UNCHANGED <<lock, runner_thread, stop_flag, current_url, retries, nprocs, procUrl, rnurl,
                   nrunners, ppc, parg, ptarget, notPb, pbGhosts, schedVars, srcVars, urlVars, watchVars, moreVars>>

\* ffplay exits by itself (-autoexit at the end of the stream, or a crash).
ProcExits(p) ==
    /\ procState[p] = "alive"
    /\ procState' = [procState EXCEPT ![p] = "exited"]
    /\ UNCHANGED <<proc, lock, runner_thread, stop_flag, current_url, retries, nprocs, procUrl,
                   rnpc, rnurl, nrunners, ppc, parg, ptarget, notPb, pbGhosts, schedVars, srcVars, urlVars, watchVars, moreVars>>

\* playback.py:101-103: is_alive(), as the status route calls it.
PbIsAlive ==
    /\ lock = "free"
    /\ seenAlive' = ProcAlive(proc)
    /\ seenAlive' # seenAlive
    /\ UNCHANGED <<proc, lock, runner_thread, stop_flag, current_url, retries, procState,
                   procUrl, nprocs, rnpc, rnurl, nrunners, ppc, parg, ptarget, notPb,
                   schedVars, srcVars, urlVars, watchVars, moreVars>>

PbCallerStep(c) ==
    \/ \E u \in PbUrls : PbCallStart(c, u)
    \/ PbStartLocked(c)
    \/ PbStartRunnerCheck(c)
    \/ PbStartJoinReturn(c)
    \/ PbStartSpawn(c)
    \/ PbCallStop(c)
    \/ PbStopLocked(c)
    \/ PbStopCheck(c)
    \/ PbStopJoinCall(c)
    \/ PbStopJoinReturn(c)
    \/ PbStopForget(c)
    \/ \E u \in PbUrls \cup {0} : PbCallRestart(c, u)
    \/ PbRestartLocked(c)
    \/ PbRestartCheck(c)
    \/ PbRestartJoinCall(c)
    \/ PbRestartJoinReturn(c)
    \/ PbRestartClear(c)
    \/ PbRestartSpawn(c)

RunnerStep(r) ==
    \/ RunLoopTest(r)
    \/ RunGetUrl(r)
    \/ \E outcome \in {"ok", "notfound", "error"} : RunSpawn(r, outcome)
    \/ RunWait(r)
    \/ RunCleanup(r)
    \/ RunRetryCheck(r)
    \/ RunDelayDone(r)
    \/ RunFinal(r)

\* The API is called by one thread at a time; the runner threads and the
\* ffplay processes run beside it.
PlaybackNext ==
    \/ PbCallerStep("watcher")
    \/ \E r \in Runners : RunnerStep(r)
    \/ \E p \in Procs : ProcExits(p)

SpecPlayback == Init /\ [][PlaybackNext]_vars

\* One start() and no other call: the runner alone with processes that may
\* exit at any time, as many as it cares to spawn.
RetryInit ==
    /\ DetInit /\ CallInit /\ ~clocked
    /\ RefInit /\ cacheFile = 0
    /\ PbFields /\ procBudget = MaxProcs /\ seenAlive = FALSE
    /\ SchedOff /\ WatchOff /\ AmbOff /\ DogOff

RetryNext ==
    \/ \E u \in PbUrls : nrunners = 0 /\ PbCallStart("watcher", u)
    \/ PbStartLocked("watcher")
    \/ PbStartRunnerCheck("watcher")
    \/ PbStartSpawn("watcher")
    \/ \E r \in Runners : RunLoopTest(r)
    \/ \E r \in Runners : RunGetUrl(r)
    \/ \E r \in Runners : RunSpawn(r, "ok")
    \/ \E r \in Runners : RunWait(r)
    \/ \E r \in Runners : RunCleanup(r)
    \/ \E r \in Runners : RunRetryCheck(r)
    \/ \E r \in Runners : RunDelayDone(r)
    \/ \E r \in Runners : RunFinal(r)
    \/ \E p \in Procs : ProcExits(p)
    \/ PbIsAlive

SpecRetry == RetryInit /\ [][RetryNext]_vars

\* start() is called whenever no runner thread is alive (the first time, and
\* again after a runner has given up); ffplay may fail to launch (any error
\* but a missing binary) or exit.
NoRunner == \A r \in Runners : ~runner_alive(r)

ExhaustNext ==
    \/ \E u \in PbUrls : NoRunner /\ PbCallStart("watcher", u)
    \/ PbStartLocked("watcher")
    \/ PbStartRunnerCheck("watcher")
    \/ PbStartSpawn("watcher")
    \/ \E r \in Runners : RunLoopTest(r)
    \/ \E r \in Runners : RunGetUrl(r)
    \/ \E r \in Runners, outcome \in {"ok", "error"} : RunSpawn(r, outcome)
    \/ \E r \in Runners : RunWait(r)
    \/ \E r \in Runners : RunCleanup(r)
    \/ \E r \in Runners : RunRetryCheck(r)
    \/ \E r \in Runners : RunDelayDone(r)
    \/ \E r \in Runners : RunFinal(r)
    \/ \E p \in Procs : ProcExits(p)
    \/ PbIsAlive

SpecExhaust == RetryInit /\ [][ExhaustNext]_vars

\* As ExhaustNext, with an ffplay binary that is there at some spawns and
\* missing at others (Popen raises FileNotFoundError).
AbsentNext ==
    \/ \E u \in PbUrls : NoRunner /\ PbCallStart("watcher", u)
    \/ PbStartLocked("watcher")
    \/ PbStartRunnerCheck("watcher")
    \/ PbStartSpawn("watcher")
    \/ \E r \in Runners : RunLoopTest(r)
    \/ \E r \in Runners : RunGetUrl(r)
    \/ \E r \in Runners, outcome \in {"ok", "notfound"} : RunSpawn(r, outcome)
    \/ \E r \in Runners : RunWait(r)
    \/ \E r \in Runners : RunCleanup(r)
    \/ \E r \in Runners : RunRetryCheck(r)
    \/ \E r \in Runners : RunDelayDone(r)
    \/ \E r \in Runners : RunFinal(r)
    \/ \E p \in Procs : ProcExits(p)
    \/ PbIsAlive

SpecAbsent == RetryInit /\ [][AbsentNext]_vars

\* ------------------------------------------------------- prayer scheduler
\* src/core/prayer_scheduler.py, prayer_scheduler_loop (lines 61-130).  The
\* scheduler is the only caller of the detection and playback API here; its
\* calls run through the caller steps of the detector and of the playback
\* manager under the name "scheduler".
TableStates == {"present", "missing"}
UrlOutcomes == {"url", "none", "raise"}

\* Frame of a scheduler step that enters start/stop_audio_detection.
detCallFrame == <<ctarget, detGlobals, dpc, ffmpeg, threadLocals, ghosts, flags, clockVars,
                  refVars, pbVars, srcVars, durl, sched_url, watchVars, moreVars>>

\* Frame of a scheduler step that calls nothing.
schedFrame == <<detVars, callVars, refVars, pbVars, srcVars, urlVars, watchVars, moreVars>>

\* Lines 66-82: the table is loaded.  Without a table the loop sleeps 300 s
\* and `continue`s, which runs the finally block; with one, `name` is bound,
\* "sleep" is logged, the flag is cleared and the thread sleeps until wake.
SchedLoad(table) ==
    /\ spc = "load"
    /\ triggered' = FALSE
    /\ IF table = "missing"
         THEN /\ spc' = "finally"
              /\ UNCHANGED <<detection_flag, name_bound, sched_event>>
         ELSE /\ name_bound' = TRUE
              /\ sched_event' = "sleep"
              /\ detection_flag' = FALSE
              /\ spc' = "wake"
    /\ UNCHANGED schedFrame

\* Lines 84-96: the stream URL is asked for at wake.  None: sleep 60 s and
\* `continue`; an exception: the except clause; both run the finally block.
\* A URL: "wake" is logged and the thread sleeps until the prayer time.
SchedGetUrl(res) ==
    /\ spc = "wake"
    /\ res = "url" => cacheFile # 0
    /\ CASE res = "url" ->
              /\ sched_url' = cacheFile
              /\ sched_event' = "wake"
              /\ spc' = "start_det"
         [] res = "none" ->
              /\ sched_url' = 0
              /\ spc' = "finally"
              /\ UNCHANGED sched_event
         [] OTHER ->
              /\ spc' = "finally"
              /\ UNCHANGED <<sched_url, sched_event>>
    /\ UNCHANGED <<detection_flag, name_bound, triggered, detVars, callVars, refVars, pbVars,
                   srcVars, durl, carg, watchVars, moreVars>>

\* Line 100: start_audio_detection(stream_url) is entered.
SchedStartDetection ==
    /\ spc = "start_det"
    /\ cpc["scheduler"] = "idle"
    /\ nthreads + StartsInFlight < MaxThreads
    /\ cop' = [cop EXCEPT !["scheduler"] = "start"]
    /\ cpc' = [cpc EXCEPT !["scheduler"] = "st_check"]
    /\ carg' = [carg EXCEPT !["scheduler"] = sched_url]
    /\ spc' = "start_wait"
    /\ UNCHANGED <<detection_flag, name_bound, sched_event, triggered, detCallFrame>>

\* Lines 100-103: start_audio_detection has returned; the flag is set.
SchedStartReturned ==
    /\ spc = "start_wait"
    /\ cpc["scheduler"] = "idle"
    /\ detection_flag' = TRUE
    /\ spc' = "poll"
    /\ UNCHANGED <<name_bound, sched_event, triggered, schedFrame>>

\* Lines 105-108: a poll before the timeout finds adhaan_active set.
SchedPollSeen ==
    /\ spc = "poll"
    /\ is_adhaan_active
    /\ triggered' = TRUE
    /\ spc' = "check"
    /\ UNCHANGED <<detection_flag, name_bound, sched_event, schedFrame>>

\* Line 105: the timeout has passed and the loop ends.
SchedPollTimeout ==
    /\ spc = "poll"
    /\ triggered' = (wasActive \/ is_adhaan_active)
    /\ spc' = "check"
    /\ UNCHANGED <<detection_flag, name_bound, sched_event, schedFrame>>

\* Lines 111-114: adhaan_active is read again; when false "no_adhaan" is
\* logged and stop_audio_detection is entered.
SchedCheck ==
    /\ spc = "check"
    /\ IF is_adhaan_active
         THEN /\ spc' = "wait_end"
              /\ UNCHANGED <<sched_event, cop, cpc>>
         ELSE /\ cpc["scheduler"] = "idle"
              /\ sched_event' = "no_adhaan"
              /\ cop' = [cop EXCEPT !["scheduler"] = "stop"]
              /\ cpc' = [cpc EXCEPT !["scheduler"] = "st_check"]
              /\ spc' = "na_stop"
    /\ UNCHANGED <<detection_flag, name_bound, triggered, carg, detCallFrame>>

\* Lines 114-115: stop_audio_detection has returned; the flag is cleared.
SchedNoAdhaanStopped ==
    /\ spc = "na_stop"
    /\ cpc["scheduler"] = "idle"
    /\ detection_flag' = FALSE
    /\ spc' = "wait_end"
    /\ UNCHANGED <<name_bound, sched_event, triggered, schedFrame>>

\* Mutant of SchedWaitEnd: the loop of line 117 is left without the test.
SchedWaitEnd_NoWait ==
    /\ spc = "wait_end"
    /\ spc' = "finally"
    /\ UNCHANGED <<detection_flag, name_bound, sched_event, triggered, schedFrame>>

\* Lines 117-118: the loop ends once adhaan_active reads false.
SchedWaitEnd ==
    /\ spc = "wait_end"
    /\ ~is_adhaan_active
    /\ spc' = "finally"
    /\ UNCHANGED <<detection_flag, name_bound, sched_event, triggered, schedFrame>>

\* Line 124: the finally block enters stop_audio_detection.
SchedFinallyStop ==
    /\ spc = "finally"
    /\ cpc["scheduler"] = "idle"
    /\ cop' = [cop EXCEPT !["scheduler"] = "stop"]
    /\ cpc' = [cpc EXCEPT !["scheduler"] = "st_check"]
    /\ spc' = "f_stop"
    /\ UNCHANGED <<detection_flag, name_bound, sched_event, triggered, carg, detCallFrame>>

\* Lines 124-127: stop_audio_detection has returned; the flag is cleared and
\* PLAYBACK.stop() is entered.
SchedFinallyPlayback ==
    /\ spc = "f_stop"
    /\ cpc["scheduler"] = "idle"
    /\ ppc["scheduler"] = "idle"
    /\ detection_flag' = FALSE
    /\ ppc' = [ppc EXCEPT !["scheduler"] = "t_lock"]
    /\ spc' = "f_pb"
    /\ UNCHANGED <<name_bound, sched_event, triggered, proc, lock, runner_thread, stop_flag,
                   current_url, retries, procState, nprocs, procUrl, rnpc, rnurl, nrunners,
                   parg, ptarget, notPb, pbGhosts, srcVars, urlVars, watchVars, moreVars>>

\* Lines 127-129: PLAYBACK.stop() has returned and the log line formats
\* `name`.  When no cycle has bound `name` yet the read raises
\* UnboundLocalError inside the finally block, outside every try, and the
\* loop and its thread end.
SchedFinallyLog ==
    /\ spc = "f_pb"
    /\ ppc["scheduler"] = "idle"
    /\ spc' = IF name_bound THEN "cooldown" ELSE "dead"
    /\ UNCHANGED <<detection_flag, name_bound, sched_event, triggered, schedFrame>>

\* Line 130: time.sleep(POST_CYCLE_COOLDOWN), then the next cycle.
SchedCooldown ==
    /\ spc = "cooldown"
    /\ spc' = "load"
    /\ UNCHANGED <<detection_flag, name_bound, sched_event, triggered, schedFrame>>

\* start_prayer_scheduler has started the thread (lines 133-139); an endpoint
\* is activated, and get_stream_url_fn reads it from the cache file.
SchedInit ==
    /\ DetInit /\ CallInit /\ ~clocked
    /\ RefInit /\ cacheFile = 1 /\ trueLeft = 3600
    /\ PbInit
    /\ SchedFields /\ spc = "load"
    /\ WatchOff /\ AmbOff /\ DogOff

SchedNext ==
    \/ \E table \in TableStates : SchedLoad(table)
    \/ \E res \in UrlOutcomes : SchedGetUrl(res)
    \/ SchedStartDetection
    \/ SchedStartReturned
    \/ SchedPollSeen
    \/ SchedPollTimeout
    \/ SchedCheck
    \/ SchedNoAdhaanStopped
    \/ SchedWaitEnd
    \/ SchedFinallyStop
    \/ SchedFinallyPlayback
    \/ SchedFinallyLog
    \/ SchedCooldown
    \/ StopCheck("scheduler")
    \/ StopJoinCall("scheduler")
    \/ StopJoinReturn("scheduler")
    \/ StopForget("scheduler")
    \/ StartClear("scheduler")
    \/ StartSpawn("scheduler")
    \/ PbStopLocked("scheduler")
    \/ PbStopCheck("scheduler")
    \/ PbStopForget("scheduler")
    \/ \E t \in Threads : ThreadStep(t)

\* The scheduler thread, the detection sessions it starts and its calls of
\* PLAYBACK.stop(); nothing else calls the detector or the playback manager.
SpecSched == SchedInit /\ [][SchedNext]_vars

\* ------------------------------ core/prayer_scheduler.py, get_next_prayer
\* prayer_scheduler.py:43, datetime.strptime(t_str, "%H:%M:%S"): the text has
\* an hour field 00..23 and a minute field 00..59, or ValueError is raised.
Parses(s) == Len(s) = 2 /\ s[1] \in 0..23 /\ s[2] \in 0..59

\* prayer_scheduler.py:43-44, .time() combined with today: minutes since
\* midnight of today
ToMinutes(s) == s[1] * 60 + s[2]

\* Mutant of Upcoming: an event at this very minute counts as upcoming.
Upcoming_Inclusive(p, now) ==
    {i \in 1..Len(PrayerOrder) :
        Parses(p[PrayerOrder[i]]) /\ ToMinutes(p[PrayerOrder[i]]) >= now}

\* prayer_scheduler.py:41-48: the entries that parse and lie after now, as
\* positions in the table; an entry that raises is skipped (a missing key is
\* not iterated at all).
Upcoming(p, now) ==
    {i \in 1..Len(PrayerOrder) :
        Parses(p[PrayerOrder[i]]) /\ ToMinutes(p[PrayerOrder[i]]) > now}

\* prayer_scheduler.py:36-58.  sorted() is stable, so of two events at the
\* same time the earlier one of the table is returned.
get_next_prayer(p, now) ==
    LET up == Upcoming(p, now)
        at(i) == ToMinutes(p[PrayerOrder[i]])
    IN  IF up # {}
          THEN LET first == CHOOSE i \in up :
                               \A j \in up : at(i) < at(j) \/ (at(i) = at(j) /\ i <= j)
               IN  [name |-> PrayerOrder[first], day |-> 0, at |-> at(first)]
          ELSE IF Parses(p["Fajr"])
                 THEN [name |-> "Fajr", day |-> 1, at |-> ToMinutes(p["Fajr"])]
                 ELSE [name |-> "Unknown", day |-> 0, at |-> now + 360]

\* One call of get_next_prayer on the table.
CallGetNextPrayer ==
    /\ next_prayer = NoPrayer
    /\ next_prayer' = get_next_prayer(prayers, now_t)
    /\ UNCHANGED <<prayers, now_t, detVars, callVars, refVars, pbVars, schedVars, srcVars,
                   urlVars, watchVars, ambVars, dogVars>>

PrayerInit ==
    /\ DetInit /\ CallInit /\ ~clocked
    /\ RefInit /\ cacheFile = 0
    /\ PbInit /\ WatchOff /\ AmbOff /\ DogOff
    /\ detection_flag = FALSE /\ name_bound = FALSE /\ sched_event = "none"
    /\ triggered = FALSE /\ sched_url = 0 /\ spc = "off"
    /\ prayers \in [PrayerNames -> TimeStrings \cup {NoEntry}]
    /\ now_t \in NowTimes
    /\ next_prayer = NoPrayer

PrayerNext == CallGetNextPrayer

SpecPrayer == PrayerInit /\ [][PrayerNext]_vars

\* stream_refresher.py:47-55, _write_cached_url as its readers see it: the
\* refresher activates a newly fetched endpoint (lines 86, 129, 138, 151).
CacheWrite ==
    /\ nfetch < MaxUrls
    /\ cacheFile' = nfetch + 1
    /\ nfetch' = nfetch + 1
    /\ trueLeft' = TOKEN_VALIDITY
    /\ UNCHANGED <<rpc, cached_url, next_url, prefetch_done, expiry_known, time_left,
                   nextTrueLeft, lastRead, lastStep, lastFetch, detVars, callVars, pbVars,
                   schedVars, srcVars, urlVars, watchVars, moreVars>>

\* The scheduler with the refresher activating endpoints meanwhile.
SchedUrlNext ==
    \/ \E table \in TableStates : SchedLoad(table)
    \/ \E res \in UrlOutcomes : SchedGetUrl(res)
    \/ SchedStartDetection
    \/ SchedStartReturned
    \/ SchedPollSeen
    \/ SchedPollTimeout
    \/ SchedCheck
    \/ SchedNoAdhaanStopped
    \/ SchedWaitEnd
    \/ SchedFinallyStop
    \/ SchedFinallyPlayback
    \/ SchedFinallyLog
    \/ SchedCooldown
    \/ StopCheck("scheduler")
    \/ StopJoinCall("scheduler")
    \/ StopJoinReturn("scheduler")
    \/ StopForget("scheduler")
    \/ StartClear("scheduler")
    \/ StartSpawn("scheduler")
    \/ PbStopLocked("scheduler")
    \/ PbStopCheck("scheduler")
    \/ PbStopForget("scheduler")
    \/ \E t \in Threads : ThreadStep(t)
    \/ CacheWrite

SpecSchedUrl == SchedInit /\ [][SchedUrlNext]_vars

\* ---------------------------------------------------------- stream watcher
\* src/main.py, monitor_stream_updates (lines 106-155).  The ambient monitor
\* it restarts alongside is left out; its calls of the detector and of
\* PLAYBACK.stop() run under the caller name "watcher".

\* Frame of a watcher step that enters start/stop_audio_detection.
\* ------------------------------------ core/detector.py, ambient monitor
\* The ambient monitor threads are followed in this behaviour.
AmbFollowed == namb # NoCount

\* detector.py:92-94
stop_ambient_monitor == amb_running' = (IF AmbFollowed THEN FALSE ELSE amb_running)

\* detector.py:83-89: nothing happens when "running" is set; otherwise a new
\* thread is created on stream_url.
start_ambient_monitor(u) ==
    IF ~AmbFollowed
      THEN UNCHANGED <<namb, apc, aurl, amb_arg>>
      ELSE /\ amb_arg' = u
           /\ IF amb_running
                THEN UNCHANGED <<namb, apc, aurl>>
                ELSE /\ namb < MaxAmb
                     /\ namb' = namb + 1
                     /\ apc' = [apc EXCEPT ![namb + 1] = "init"]
                     /\ aurl' = [aurl EXCEPT ![namb + 1] = u]

ambFrame == <<detection_thread, detection_stop, nthreads, dpc, ffmpeg, threadLocals, ghosts,
              flags, callVars, clockVars, refVars, pbVars, schedVars, srcVars, urlVars,
              watchVars, tblVars, dogVars>>

\* detector.py:42: the loop sets "running" as its first statement.
AmbLoopInit(a) ==
    /\ apc[a] = "init"
    /\ amb_running' = TRUE
    /\ apc' = [apc EXCEPT ![a] = "test"]
    /\ UNCHANGED <<ambient_rms, namb, aurl, ambient_from, amb_arg, ambient_flag, ambFrame>>

\* detector.py:44: while AMBIENT_STATE["running"]
AmbLoopTest(a) ==
    /\ apc[a] = "test"
    /\ apc' = [apc EXCEPT ![a] = IF amb_running THEN "sample" ELSE "dead"]
    /\ UNCHANGED <<ambient_rms, amb_running, namb, aurl, ambient_from, amb_arg, ambient_flag,
                   ambFrame>>

\* What two seconds of ffmpeg output give the monitor: an rms, or nothing.
AmbientReads == AmbientLevels \cup {0}

\* detector.py:46-78: one pass of the loop: two seconds of the thread's
\* stream are read and, unless the read was empty, published; then the
\* thread sleeps 10 s and tests "running" again.
AmbSample(a, r) ==
    /\ apc[a] = "sample"
    /\ IF r # 0
         THEN ambient_rms' = r /\ ambient_from' = aurl[a]
         ELSE UNCHANGED <<ambient_rms, ambient_from>>
    /\ apc' = [apc EXCEPT ![a] = "test"]
    /\ UNCHANGED <<amb_running, namb, aurl, amb_arg, ambient_flag, ambFrame>>

\* -------------------------------------------- main.py, watchdog_monitor
dogFrame == <<detVars, refVars, pbVars, schedVars, srcVars, watchVars, tblVars>>

\* main.py:163-166: the watchdog reads the cache file; with no URL it sleeps.
DogRead ==
    /\ gpc = "read"
    /\ g_url' = cacheFile
    /\ gpc' = IF cacheFile = 0 THEN "sleep" ELSE "amb"
    /\ UNCHANGED <<ambVars, callVars, urlVars, dogFrame>>

\* main.py:169-178: the ambient check.  The snapshot is stale when its
\* timestamp is more than 45 s old, which needs a timestamp; a restart
\* begins with stop_ambient_monitor().
DogAmbCheck(stale) ==
    /\ gpc = "amb"
    /\ stale => ambient_from # 0
    /\ IF AmbFollowed /\ (~ambient_flag \/ stale)
         THEN stop_ambient_monitor /\ gpc' = "amb_start"
         ELSE UNCHANGED amb_running /\ gpc' = "det"
    /\ UNCHANGED <<namb, apc, aurl, ambient_from, amb_arg, ambient_flag, g_url, callVars,
                   urlVars, dogFrame>>

\* main.py:179-180
DogAmbStart ==
    /\ gpc = "amb_start"
    /\ start_ambient_monitor(g_url)
    /\ ambient_flag' = TRUE
    /\ gpc' = "det"
    /\ UNCHANGED <<amb_running, ambient_from, g_url, callVars, urlVars, dogFrame>>

\* What the import of line 189 gives: core.detector defines no
\* _detection_in_progress, so it raises; an Event of that name would be set
\* or clear.
ImportOutcomes == {"missing", "set", "clear"}

\* main.py:189-196 and 205-208: the detection check.  An ImportError ends the
\* pass in the outer handler; with the flag clear and no detection in progress
\* the watchdog calls start_audio_detection(url).
DogDetection(imp) ==
    /\ gpc = "det"
    /\ IF imp # "missing" /\ ~detection_flag /\ imp = "clear"
         THEN /\ cpc["scheduler"] = "idle"
              /\ nthreads + StartsInFlight < MaxThreads
              /\ cop' = [cop EXCEPT !["scheduler"] = "start"]
              /\ cpc' = [cpc EXCEPT !["scheduler"] = "st_check"]
              /\ carg' = [carg EXCEPT !["scheduler"] = g_url]
              /\ gpc' = "d_start"
         ELSE /\ gpc' = "sleep"
              /\ UNCHANGED <<cop, cpc, carg>>
    /\ UNCHANGED <<ctarget, durl, sched_url, ambVars, g_url, dogFrame>>

\* main.py:196-197: start_audio_detection has returned.
DogStarted ==
    /\ gpc = "d_start"
    /\ cpc["scheduler"] = "idle"
    /\ detection_flag' = TRUE
    /\ gpc' = "sleep"
    /\ UNCHANGED <<spc, name_bound, sched_event, triggered, ambVars, g_url, callVars, urlVars,
                   detVars, refVars, pbVars, srcVars, watchVars, tblVars>>

\* main.py:207-208
DogSleep ==
    /\ gpc = "sleep"
    /\ gpc' = "read"
    /\ UNCHANGED <<ambVars, g_url, callVars, urlVars, dogFrame>>

\* The watchdog and the ambient monitor threads it restarts, with the
\* refresher's cache writes.  The second caller slot of the detector is the
\* watchdog's; the import of line 189 fails as it does on this source.
AmbInit ==
    /\ DetInit /\ CallInit /\ ~clocked
    /\ RefInit /\ cacheFile = 1 /\ trueLeft = 3600
    /\ PbInit /\ SchedOff /\ WatchOff
    /\ AmbFields /\ namb = 0
    /\ gpc = "read" /\ g_url = 0

AmbNext ==
    \/ DogRead
    \/ \E stale \in BOOLEAN : DogAmbCheck(stale)
    \/ DogAmbStart
    \/ DogDetection("missing")
    \/ DogSleep
    \/ CacheWrite
    \/ \E a \in Ambs : AmbLoopInit(a)
    \/ \E a \in Ambs : AmbLoopTest(a)
    \/ \E a \in Ambs : \E r \in AmbientReads : AmbSample(a, r)

SpecAmbient == AmbInit /\ [][AmbNext]_vars

watchCallFrame == <<ctarget, detGlobals, dpc, ffmpeg, threadLocals, ghosts, flags, clockVars,
                    refVars, pbVars, srcVars, durl, sched_url, spc, name_bound, sched_event,
                    triggered, tblVars, dogVars>>

\* Frame of a watcher step that calls nothing.
watchFrame == <<detVars, callVars, refVars, pbVars, srcVars, urlVars, spc, name_bound,
                sched_event, triggered, moreVars>>

\* Lines 111-118: the cache file is read once; with a URL in it detection is
\* started on it.
WatchBoot ==
    /\ wpc = "boot"
    /\ IF cacheFile # 0
         THEN /\ cpc["watcher"] = "idle"
              /\ new_url' = cacheFile
              /\ carg' = [carg EXCEPT !["watcher"] = cacheFile]
              /\ cop' = [cop EXCEPT !["watcher"] = "start"]
              /\ cpc' = [cpc EXCEPT !["watcher"] = "st_check"]
              /\ start_ambient_monitor(cacheFile)
              /\ ambient_flag' = (IF AmbFollowed THEN TRUE ELSE ambient_flag)
              /\ wpc' = "w_start"
         ELSE /\ wpc' = "poll"
              /\ UNCHANGED <<new_url, carg, cop, cpc, namb, apc, aurl, amb_arg, ambient_flag>>
    /\ UNCHANGED <<last_url, detection_flag, amb_running, ambient_from, watchCallFrame>>

\* Lines 127-135: the file has changed and holds a URL other than last_url;
\* stop_audio_detection is entered.
WatchPoll ==
    /\ wpc = "poll"
    /\ cacheFile # 0 /\ cacheFile # last_url
    /\ cpc["watcher"] = "idle"
    /\ new_url' = cacheFile
    /\ cop' = [cop EXCEPT !["watcher"] = "stop"]
    /\ cpc' = [cpc EXCEPT !["watcher"] = "st_check"]
    /\ wpc' = "w_stop"
    /\ UNCHANGED <<last_url, detection_flag, carg, ambVars, watchCallFrame>>

\* Lines 135-139: stop_audio_detection has returned; the flag is cleared and
\* PLAYBACK.stop() is entered.
WatchStopped ==
    /\ wpc = "w_stop"
    /\ cpc["watcher"] = "idle"
    /\ ppc["watcher"] = "idle"
    /\ detection_flag' = FALSE
    /\ stop_ambient_monitor
    /\ ambient_flag' = (IF AmbFollowed THEN FALSE ELSE ambient_flag)
    /\ ppc' = [ppc EXCEPT !["watcher"] = "t_lock"]
    /\ wpc' = "w_pb"
    /\ UNCHANGED <<last_url, new_url, spc, name_bound, sched_event, triggered, proc, lock,
                   runner_thread, stop_flag, current_url, retries, procState, nprocs, procUrl,
                   rnpc, rnurl, nrunners, parg, ptarget, notPb, pbGhosts, srcVars, urlVars, tblVars, dogVars,
                   namb, apc, aurl, ambient_from, amb_arg>>

\* Lines 139-145: PLAYBACK.stop() has returned; start_audio_detection(new_url)
\* is entered.
WatchRestart ==
    /\ wpc = "w_pb"
    /\ ppc["watcher"] = "idle"
    /\ cpc["watcher"] = "idle"
    /\ nthreads + StartsInFlight < MaxThreads
    /\ start_ambient_monitor(new_url)
    /\ ambient_flag' = (IF AmbFollowed THEN TRUE ELSE ambient_flag)
    /\ carg' = [carg EXCEPT !["watcher"] = new_url]
    /\ cop' = [cop EXCEPT !["watcher"] = "start"]
    /\ cpc' = [cpc EXCEPT !["watcher"] = "st_check"]
    /\ wpc' = "w_start"
    /\ UNCHANGED <<last_url, new_url, detection_flag, amb_running, ambient_from, watchCallFrame>>

\* Lines 118-120 and 145-147: start_audio_detection has returned; the flag
\* is set and last_url is the URL detection was started on.
WatchStarted ==
    /\ wpc = "w_start"
    /\ cpc["watcher"] = "idle"
    /\ detection_flag' = TRUE
    /\ last_url' = new_url
    /\ wpc' = "poll"
    /\ UNCHANGED <<new_url, watchFrame>>

\* The watcher thread has been started (main.py:225); the refresher has
\* activated a first endpoint or not yet.
WatchInit ==
    /\ DetInit /\ CallInit /\ ~clocked
    /\ RefInit /\ trueLeft # -600
    /\ PbInit
    /\ SchedOff
    /\ WatchFields /\ wpc = "boot" /\ AmbOff /\ DogOff

\* The watcher, the detection sessions it starts and the endpoints the
\* refresher activates.
RebindNext ==
    \/ WatchBoot
    \/ WatchPoll
    \/ WatchStopped
    \/ WatchRestart
    \/ WatchStarted
    \/ CacheWrite
    \/ StopCheck("watcher")
    \/ StopJoinCall("watcher")
    \/ StopJoinReturn("watcher")
    \/ StopForget("watcher")
    \/ StartClear("watcher")
    \/ StartSpawn("watcher")
    \/ PbStopLocked("watcher")
    \/ PbStopCheck("watcher")
    \/ PbStopForget("watcher")
    \/ \E t \in Threads : ThreadStep(t)

SpecRebind == WatchInit /\ [][RebindNext]_vars

\* The watcher while ffplay plays.  Nothing in src calls PLAYBACK.start, so
\* the state start() and one pass of _runner leave behind is where this
\* specification begins: runner 1 waits on an ffplay process that plays the
\* endpoint in the cache file.
PlayingFields ==
    /\ proc = 1
    /\ lock = "free"
    /\ runner_thread = 1
    /\ stop_flag = FALSE
    /\ current_url = cacheFile
    /\ retries = 0
    /\ procState = [p \in Procs |-> IF p = 1 THEN "alive" ELSE "none"]
    /\ procUrl = [p \in Procs |-> IF p = 1 THEN cacheFile ELSE 0]
    /\ nprocs = 1
    /\ rnpc = [r \in Runners |-> IF r = 1 THEN "wait" ELSE "none"]
    /\ rnurl = [r \in Runners |-> 0]
    /\ nrunners = 1
    /\ ppc = [c \in Callers |-> "idle"]
    /\ parg = [c \in Callers |-> 0]
    /\ ptarget = [c \in Callers |-> 0]

PlayingInit ==
    /\ DetInit /\ CallInit /\ ~clocked
    /\ RefInit /\ cacheFile # 0
    /\ PlayingFields /\ procBudget = PlaybackProcs /\ seenAlive = FALSE
    /\ SchedOff
    /\ WatchFields /\ wpc = "boot" /\ AmbOff /\ DogOff

RebindPlayingNext ==
    \/ WatchBoot
    \/ WatchPoll
    \/ WatchStopped
    \/ WatchRestart
    \/ WatchStarted
    \/ CacheWrite
    \/ StopCheck("watcher")
    \/ StopJoinCall("watcher")
    \/ StopJoinReturn("watcher")
    \/ StopForget("watcher")
    \/ StartClear("watcher")
    \/ StartSpawn("watcher")
    \/ PbStopLocked("watcher")
    \/ PbStopCheck("watcher")
    \/ PbStopJoinCall("watcher")
    \/ PbStopJoinReturn("watcher")
    \/ PbStopForget("watcher")
    \/ \E t \in Threads : ThreadStep(t)
    \/ \E r \in Runners : RunWait(r)
    \/ \E r \in Runners : RunCleanup(r)
    \/ \E r \in Runners : RunRetryCheck(r)
    \/ \E r \in Runners : RunFinal(r)

SpecRebindPlaying == PlayingInit /\ [][RebindPlayingNext]_vars

\* The watcher and the watchdog on a cache file that does not change: the
\* watcher starts detection at boot, the watchdog checks every poll interval.
\* The ambient monitor threads are not followed here.
DogInit ==
    /\ DetInit /\ CallInit /\ ~clocked
    /\ RefInit /\ cacheFile = 1 /\ trueLeft = 3600
    /\ PbInit /\ SchedOff
    /\ WatchFields /\ wpc = "boot"
    /\ AmbOff
    /\ gpc = "read" /\ g_url = 0

WatcherSteps ==
    \/ WatchBoot
    \/ WatchStarted
    \/ StopCheck("watcher")
    \/ StopJoinCall("watcher")
    \/ StopJoinReturn("watcher")
    \/ StopForget("watcher")
    \/ StartClear("watcher")
    \/ StartSpawn("watcher")

WatchdogSteps ==
    \/ DogRead
    \/ DogAmbCheck(FALSE)
    \/ \E imp \in ImportOutcomes : DogDetection(imp)
    \/ DogStarted
    \/ DogSleep
    \/ StopCheck("scheduler")
    \/ StopJoinCall("scheduler")
    \/ StopJoinReturn("scheduler")
    \/ StopForget("scheduler")
    \/ StartClear("scheduler")
    \/ StartSpawn("scheduler")

DetectionSteps == \E t \in Threads : ThreadStep(t)

DogNext ==
    \/ WatchBoot
    \/ WatchStarted
    \/ StopCheck("watcher")
    \/ StopJoinCall("watcher")
    \/ StopJoinReturn("watcher")
    \/ StopForget("watcher")
    \/ StartClear("watcher")
    \/ StartSpawn("watcher")
    \/ DogRead
    \/ DogAmbCheck(FALSE)
    \/ \E imp \in ImportOutcomes : DogDetection(imp)
    \/ DogStarted
    \/ DogSleep
    \/ StopCheck("scheduler")
    \/ StopJoinCall("scheduler")
    \/ StopJoinReturn("scheduler")
    \/ StopForget("scheduler")
    \/ StartClear("scheduler")
    \/ StartSpawn("scheduler")
    \/ \E t \in Threads : ThreadStep(t)

\* Every thread that can take a step eventually takes one: the watcher, the
\* watchdog and the detection threads are separate threads of one process.
SpecDogFair ==
    /\ DogInit /\ [][DogNext]_vars
    /\ WF_vars(WatcherSteps)
    /\ WF_vars(WatchdogSteps)
    /\ WF_vars(DetectionSteps)


\* ------------------------------------------------------------------ claims
\* A session is RECORDING after its confirmed start and before its confirmed
\* end or abort.
Recording(t) ==
    /\ dpc[t] \in {"start_ret", "listen_end", "post_end", "end_ret"}
    /\ started[t]
    /\ ~ended[t]

AnyRecording == \E t \in Threads : Recording(t)

\* C1: at most one detection thread is alive at any time: a new thread is
\* started only after the previous one has fully stopped.
C1_OneDetectionThread == Cardinality(AliveThreads) <= 1

\* C3: the adhaan_active value read by the scheduler and the refresher
\* (is_adhaan_active) and by the status surface (RuntimeState.adhaan_active)
\* is true exactly when a detection session is RECORDING.
C3_ActiveIffRecording ==
    /\ state_adhaan_active <=> AnyRecording
    /\ is_adhaan_active <=> AnyRecording

\* C7: while no frame of the session was above the effective threshold, the
\* detector stays in IDLE: consecutive_high is 0, no "start" row is logged
\* and detect_audio_start has not returned True.
C7_AllLowStaysIdle ==
    \A t \in Threads :
        (is_alive(t) /\ allLow[t]) =>
            /\ consecutive_high[t] = 0
            /\ startEvents[t] = 0
            /\ ~started[t]
            /\ dpc[t] \in {"begin", "listen_start", "start_ret"}

C7_Witness ==
    \E t \in Threads :
        dpc[t] = "listen_start" /\ heard[t] /\ allLow[t] /\ eff_threshold[t] = 300

\* C8: once consecutive_high has reached 2 s in a session, the session
\* becomes RECORDING exactly once and logs exactly one "start" row; a
\* session that has not reached it logs none.
C8_OneStartPerSession ==
    \A t \in Threads :
        is_alive(t) =>
            /\ startEvents[t] <= 1
            /\ ~onsetSeen[t] => (startEvents[t] = 0 /\ ~started[t])
            /\ (onsetSeen[t] /\ dpc[t] # "post_start") =>
                   (startEvents[t] = 1 /\ started[t])
            /\ dpc[t] = "post_start" => (startEvents[t] = 0 /\ ~started[t])

C8_Witness ==
    \E t \in Threads : dpc[t] = "listen_end" /\ onsetSeen[t] /\ startEvents[t] = 1

C10_SessionCapped ==
    \A t \in Threads :
        dpc[t] = "listen_end" => elapsed[t] <= MAX_SESSION_SECONDS + required_silence


\* C4: the cache file consumers read holds the one activated endpoint: a
\* prefetched URL waiting in next_url is neither in the cache file nor ever
\* read by a consumer, and inside the refresh loop the file holds exactly the
\* URL the refresher regards as current.
C4_PendingNeverVisible ==
    /\ next_url # 0 => (cacheFile # next_url /\ lastRead # next_url)
    /\ rpc \in {"top", "swap", "sleep"} => cacheFile = cached_url

\* A prefetched URL is held back by a session while a consumer has read the
\* activated one.
C4_Witness ==
    /\ rpc = "sleep"
    /\ lastStep = "hold"
    /\ next_url # 0
    /\ cacheFile # 0
    /\ lastRead = cacheFile

\* C5: at a refresh check with a pending URL and adhaan_active true, the
\* pending URL stays pending while time-left is at least SWAP_CUTOFF, and is
\* activated at the check where time-left is below SWAP_CUTOFF.
C5_SwapRule ==
    [][(/\ rpc = "swap"
        /\ rpc' = "sleep"
        /\ prefetch_done
        /\ next_url # 0
        /\ adhaan_active)
       => IF time_left >= SWAP_CUTOFF
            THEN cacheFile' = cacheFile /\ next_url' = next_url
            ELSE cacheFile' = next_url /\ next_url' = 0]_vars

\* A pending URL was force-activated during a session, after having been
\* held at an earlier check.
C5_Witness ==
    /\ rpc = "sleep"
    /\ lastStep = "forced_swap"
    /\ adhaan_active
    /\ cacheFile # 0
    /\ trueLeft < TOKEN_VALIDITY

\* C6: a refresh check that finds the activated endpoint's token expired
\* fetches a new endpoint and activates it (unless the fetch itself fails),
\* so no check ends with an expired endpoint still activated and no failed
\* fetch behind it.
C6_ExpiredIsRefreshed ==
    (rpc = "sleep" /\ cacheFile # 0 /\ trueLeft < 0) => lastFetch \in {"none", "raise"}

\* C2: at most one ffplay process spawned by the manager is alive.
C2_AtMostOneProcess == Cardinality({p \in Procs : procState[p] = "alive"}) <= 1

\* C11: once stop_audio_detection has raised the stop signal, a session's
\* frame loop reads at most one more frame before it exits.
C11_StopWithinOneFrame == \A t \in Threads : stopReads[t] <= 1

C13_StartSameUrlNoop ==
    [][\A c \in Callers :
         (/\ ppc[c] = "s_lock"
          /\ ppc'[c] # "s_lock"
          /\ ProcAlive(proc)
          /\ procUrl[proc] = parg[c])
         => /\ ppc'[c] = "idle"
            /\ UNCHANGED <<proc, procState, nprocs, runner_thread, nrunners,
                           stop_flag, retries, current_url>>]_vars

\* C14: when start(endpoint) returns, the stop flag is clear (so that the
\* runner it started goes on to spawn a process for endpoint).
C14_StartLeavesFlagClear ==
    [][\A c \in Callers :
         (ppc[c] = "s_spawn" /\ ppc'[c] = "idle") => ~stop_flag']_vars

\* C15: with one start(), no stop and every process crashing, the k-th
\* spawn is made with k-1 retries counted, there are never more than
\* 1 + max_retries spawns, the loop is re-entered after a spawn only from the
\* retry delay, and the runner ends only after exactly 1 + max_retries spawns.
C15_RetriesThenGivesUp ==
    [][\A r \in Runners :
         /\ (rnpc[r] = "spawn" /\ rnpc'[r] = "wait") =>
                (nprocs' = retries + 1 /\ nprocs' <= 1 + max_retries)
         /\ (rnpc[r] # "loop" /\ rnpc'[r] = "loop" /\ nprocs >= 1) => rnpc[r] = "delay"
         /\ (rnpc[r] # "dead" /\ rnpc'[r] = "dead") =>
                (nprocs = 1 + max_retries /\ retries = 1 + max_retries)]_vars

\* The runner has given up after its fourth spawn, with a fifth process
\* still to be had.
C15_Witness ==
    /\ rnpc[1] = "dead"
    /\ nprocs = 1 + max_retries
    /\ nprocs < procBudget
    /\ retries > max_retries

\* The manager after its runner gave up: retries used up, no runner alive.
Exhausted == retries > max_retries /\ NoRunner

\* C16: once the retries are exhausted no process is alive, is_alive() is
\* false and nothing changes that but start(); start() resets the retry
\* counter to 0, returns with the stop flag clear and a new runner at its
\* loop test, and a runner spawns only with retries left and gives up only
\* when they are used up.
C16_StoppedUntilStart ==
    [][/\ Exhausted => (proc = 0 /\ \A p \in Procs : procState[p] # "alive")
       /\ (Exhausted /\ seenAlive' # seenAlive) => ~seenAlive'
       /\ (Exhausted /\ ~Exhausted') =>
              (ppc["watcher"] = "s_lock" /\ retries' = 0 /\ ~stop_flag')
       /\ (ppc["watcher"] = "s_spawn" /\ ppc'["watcher"] = "idle") =>
              (retries' = 0 /\ ~stop_flag' /\ rnpc'[runner_thread'] = "loop")
       /\ \A r \in Runners :
              /\ (rnpc[r] = "spawn" /\ rnpc'[r] = "wait") => retries <= max_retries
              /\ (rnpc[r] # "final" /\ rnpc'[r] = "final") => retries' > max_retries]_vars

\* After the first runner gave up, a second start() has led to a live
\* process under a fresh retry counter.
C16_Witness ==
    /\ nrunners = 2
    /\ rnpc[1] = "dead"
    /\ rnpc[2] = "wait"
    /\ ProcAlive(proc)
    /\ retries = 0

\* C17: when stop() returns no process spawned by the manager is alive and
\* no runner thread is alive.
C17_StopLeavesNothing ==
    [][\A c \in Callers :
         (ppc[c] = "t_none" /\ ppc'[c] = "idle") =>
             /\ \A p \in Procs : procState'[p] # "alive"
             /\ \A r \in Runners : rnpc'[r] \in {"none", "dead"}]_vars

\* C18: the scheduler loop never terminates.
C18_SchedulerNeverEnds == spc # "dead"

\* C19: once stop_audio_detection has returned on the no_adhaan branch (no
\* activation seen up to the timeout, "no_adhaan" recorded), detection is
\* stopped: no detection thread is alive.
C19_NoAdhaanStopsDetection ==
    [][(spc = "na_stop" /\ spc' = "wait_end" /\ ~triggered) =>
           (sched_event = "no_adhaan" /\ ~detection_flag' /\ NoSession')]_vars

\* Positions of the scheduler from which detection or playback is being
\* stopped, the cooldown runs, or the loop is over.
SchedStopping == {"na_stop", "finally", "f_stop", "f_pb", "cooldown", "dead"}

\* C20: once the scheduler has seen adhaan_active set, it starts no stop of
\* detection or playback and no cooldown while adhaan_active is true: it
\* leaves the waiting positions only at a read of adhaan_active that is
\* false, makes no API call before that, and a new cycle begins only out of
\* the cooldown.
C20_WaitsForEnd ==
    [][/\ (triggered /\ spc \in {"check", "wait_end"} /\ spc' \in SchedStopping) =>
              ~is_adhaan_active
       /\ (triggered /\ spc \in {"check", "wait_end"} /\ spc' \notin SchedStopping) =>
              (cpc'["scheduler"] = "idle" /\ ppc'["scheduler"] = "idle"
               /\ detection_flag' = detection_flag)
       /\ (spc # "load" /\ spc' = "load") => spc = "cooldown"]_vars

\* The scheduler saw the adhaan, waited for its end and is now in the
\* finally block with the session over.
C20_Witness ==
    /\ triggered
    /\ wasActive
    /\ spc = "f_stop"
    /\ ~is_adhaan_active

\* C30: a frame read by detect_audio_start's loop adds one frame-duration
\* (2 half seconds) to consecutive_high when its rms is above the effective
\* threshold and otherwise takes half a frame-duration off, not below zero;
\* consecutive_high is never negative.
C30_ConsecutiveHighStep ==
    [][\A t \in Threads :
         /\ consecutive_high[t] >= 0 /\ consecutive_high'[t] >= 0
         /\ (/\ dpc[t] = "listen_start"
             /\ dpc'[t] \in {"listen_start", "post_start"}
             /\ (lastRms' # lastRms \/ consecutive_high'[t] # consecutive_high[t]))
            => consecutive_high'[t] =
                  IF lastRms' > eff_threshold[t]
                    THEN consecutive_high[t] + 2
                    ELSE IF consecutive_high[t] >= 1 THEN consecutive_high[t] - 1 ELSE 0]_vars

\* A quiet frame has just been read with consecutive_high already at zero:
\* the clamp has acted.
C30_Witness ==
    \E t \in Threads :
        /\ dpc[t] = "listen_start"
        /\ onsetSeen[t] = FALSE
        /\ lastRms > 0 /\ lastRms <= eff_threshold[t]
        /\ consecutive_high[t] = 0
        /\ ~allLow[t]

\* C25: a refresh check that finds a pending endpoint while adhaan_active is
\* false activates it: the cache file and cached_url become the pending
\* endpoint, the pending slot is emptied and the expiry is set to two hours.
C25_IdleSwapActivates ==
    [][(rpc = "swap" /\ rpc' = "sleep" /\ next_url # 0 /\ ~is_adhaan_active) =>
           /\ cacheFile' = next_url
           /\ cached_url' = next_url
           /\ next_url' = 0
           /\ ~prefetch_done'
           /\ time_left' = ASSUMED_VALIDITY]_vars

\* An idle swap has just activated the newest fetched endpoint.
C25_Witness ==
    /\ rpc = "sleep"
    /\ lastStep = "idle_swap"
    /\ ~is_adhaan_active
    /\ cacheFile = nfetch /\ cacheFile # 0
    /\ next_url = 0

\* C27: the time-left the refresher holds for the activated endpoint is the
\* one of its token (every token here is decodable and carries its exp).
C27_ExpiryIsTokenExp ==
    (expiry_known /\ cacheFile # 0 /\ cached_url = cacheFile) => time_left = trueLeft

\* C28: a spawn that finds the binary missing counts no retry and takes the
\* runner to its final cleanup, from which it only ends; a runner ends only
\* through that cleanup; with no runner alive there is no process, is_alive()
\* is false, and only start() brings a runner back.
C28_MissingBinaryDegrades ==
    [][/\ \A r \in Runners :
            /\ (rnpc[r] = "spawn" /\ rnpc'[r] # "spawn" /\ nprocs' = nprocs) =>
                   (rnpc'[r] = "final" /\ retries' = retries)
            /\ rnpc[r] = "final" => rnpc'[r] \in {"final", "dead"}
            /\ (rnpc[r] # "dead" /\ rnpc'[r] = "dead") => rnpc[r] = "final"
       /\ NoRunner => (proc = 0 /\ \A p \in Procs : procState[p] # "alive")
       /\ (NoRunner /\ seenAlive' # seenAlive) => ~seenAlive'
       /\ (NoRunner /\ ~NoRunner') => ppc["watcher"] = "s_spawn"]_vars

\* The first runner found no binary and ended: nothing was spawned and no
\* retry was counted, and a process is still to be had.
C28_Witness ==
    /\ nrunners = 1
    /\ rnpc[1] = "dead"
    /\ nprocs = 0
    /\ retries = 0
    /\ proc = 0
    /\ ppc["watcher"] = "idle"

\* C26: a frame loop gives up before it has made EmptyReadsCap empty reads
\* in a row.
C26_EmptyReadsBounded == \A t \in Threads : emptyReads[t] < EmptyReadsCap

\* C21: the endpoint the scheduler hands to start_audio_detection is the
\* one activated at the moment of the call.
C21_StartsOnCurrentEndpoint ==
    [][(spc = "start_det" /\ spc' = "start_wait") => carg'["scheduler"] = cacheFile]_vars

\* C22: once a session has confirmed its start and listens for the end,
\* PlaybackManager.start has been called (the manager has a URL).
C22_PlaybackFollowsStart ==
    \A t \in Threads : dpc[t] = "listen_end" => current_url # 0

\* C23: when the watcher has rebound detection to a new endpoint, no frame
\* loop reads from another endpoint.
C23_OldSessionTornDown ==
    [][(wpc = "w_start" /\ wpc' = "poll") =>
           \A t \in Threads :
               dpc'[t] \in {"listen_start", "post_start", "listen_end", "post_end"}
                   => durl'[t] = last_url']_vars

\* C24: ffplay was playing when the endpoint changed, so once the watcher has
\* finished acting on the change (stopped and restarted detection), playback
\* is rebound: an ffplay process bound to the new endpoint is live, or the
\* manager is started on the new endpoint with a runner about to spawn one.
C24_PlaybackRebound ==
    [][(wpc = "w_start" /\ wpc' = "poll" /\ last_url # 0) =>
           \/ \E p \in Procs : procState'[p] = "alive" /\ procUrl'[p] = last_url'
           \/ ~stop_flag' /\ current_url' = last_url' /\ runner_alive(runner_thread)']_vars

\* C31: a frame read by detect_audio_end's loop adds one to silence_counter
\* exactly when its rms is below half the effective threshold of the session
\* (2 * rms < effective_threshold, the threshold detect_audio_start derives
\* from the ambient rms), and every other frame resets it to zero.
C31_SilenceStep ==
    [][\A t \in Threads :
         (/\ dpc[t] = "listen_end"
          /\ dpc'[t] \in {"listen_end", "post_end"}
          /\ (lastRms' # lastRms \/ silence_counter'[t] # silence_counter[t]))
         => silence_counter'[t] =
               IF 2 * lastRms' < effective_threshold(ambient_rms, threshold)
                 THEN silence_counter[t] + 1 ELSE 0]_vars

\* C32: the threshold a session applies to its IDLE frames is
\* max(ambient.rms * 3, FLOOR) with FLOOR the configured threshold, taken
\* from the latest published ambient rms; it is never below FLOOR.
C32_ThresholdAtLeastFloor ==
    \A t \in Threads :
        dpc[t] = "listen_start" => eff_threshold[t] = Max(ambient_rms * 3, threshold)

\* C33: the audio file written at a confirmed end holds every frame the
\* session received while RECORDING, in arrival order (frames 1..n), followed
\* by the frames read after the silence condition was met.
C33_ArtifactHoldsAllFrames ==
    [][\A t \in Threads :
         (FramesKept(t) /\ dpc[t] = "post_end" /\ dpc'[t] = "end_ret")
         => /\ Len(artifact'[t]) >= elapsed[t]
            /\ \A i \in 1..Len(artifact'[t]) : artifact'[t][i] = i]_vars

\* The entries of the table that parse and lie strictly after now.
C34_UpcomingNames ==
    {n \in PrayerNames : Parses(prayers[n]) /\ ToMinutes(prayers[n]) > now_t}

\* What C34 says of a call that finds an event of today still upcoming: the
\* event returned is one of the table whose time parses, lies strictly after
\* now and is the smallest such time.
C34_TodayCase ==
    C34_UpcomingNames # {} =>
        /\ next_prayer.day = 0
        /\ next_prayer.name \in C34_UpcomingNames
        /\ next_prayer.at = ToMinutes(prayers[next_prayer.name])
        /\ \A n \in C34_UpcomingNames : next_prayer.at <= ToMinutes(prayers[n])

\* C34 as stated: get_next_prayer returns the event with the smallest time of
\* day strictly later than now, and Fajr on the next day when no event of
\* today is still upcoming; an entry that cannot be parsed is never selected.
C34_NextPrayer ==
    next_prayer # NoPrayer =>
        /\ C34_TodayCase
        /\ C34_UpcomingNames = {} =>
              /\ next_prayer.name = "Fajr" /\ next_prayer.day = 1
              /\ Parses(prayers["Fajr"])
              /\ next_prayer.at = ToMinutes(prayers["Fajr"])

\* C34 amended: as stated, except that with no event of today upcoming the
\* result is Fajr on the next day when the table has a Fajr entry that parses,
\* and otherwise the placeholder event "Unknown" six hours from now.
C34_NextPrayerOrPlaceholder ==
    next_prayer # NoPrayer =>
        /\ C34_TodayCase
        /\ (C34_UpcomingNames = {} /\ Parses(prayers["Fajr"])) =>
              /\ next_prayer.name = "Fajr" /\ next_prayer.day = 1
              /\ next_prayer.at = ToMinutes(prayers["Fajr"])
        /\ (C34_UpcomingNames = {} /\ ~Parses(prayers["Fajr"])) =>
              /\ next_prayer.name = "Unknown" /\ next_prayer.day = 0
              /\ next_prayer.at = now_t + 360
        /\ next_prayer.name \in PrayerNames => Parses(prayers[next_prayer.name])

\* The call has returned the placeholder: nothing of today was upcoming, the
\* Fajr entry does not parse, and a later entry of the table does.
C34_Witness ==
    /\ next_prayer.name = "Unknown"
    /\ ~Parses(prayers["Fajr"]) /\ prayers["Fajr"] # NoEntry
    /\ Parses(prayers["Dhuhr"])
    /\ now_t > ToMinutes(prayers["Dhuhr"])

\* C36: every live ffplay process was spawned with the URL current_url()
\* returns.
C36_LiveProcessOnCurrentUrl ==
    \A p \in Procs : procState[p] = "alive" => procUrl[p] = current_url

\* C37: after every activation (idle swap, forced swap, emergency fetch that
\* returned a URL) and after every prefetch that returned no URL, the
\* refresher is re-armed: nothing is pending and prefetch_done is false.
C37_RearmedAfterActivation ==
    /\ (rpc = "sleep" /\ lastStep \in {"idle_swap", "forced_swap"})
           => (next_url = 0 /\ ~prefetch_done)
    /\ (rpc = "sleep" /\ lastStep = "emergency" /\ lastFetch = "url")
           => (next_url = 0 /\ ~prefetch_done)
    /\ (rpc = "swap" /\ lastFetch = "none")
           => (next_url = 0 /\ ~prefetch_done)

\* C38: once the refresher holds a non-empty activated endpoint, cached_url
\* and the cache file stay non-empty, and a fetch that returns no URL leaves
\* the expiry alone.
C38_ActivatedStaysNonEmpty ==
    [][/\ (cached_url # 0 /\ cacheFile # 0) => (cached_url' # 0 /\ cacheFile' # 0)
       /\ (cached_url # 0 /\ rpc = "swap" /\ rpc' = "sleep" /\ lastFetch' = "none")
              => time_left' = time_left]_vars

\* C40: a pending endpoint that has been held since an earlier check, with
\* adhaan_active true, is never still pending at a check that finds the
\* activated endpoint past its expiry.
C40_SwappedBeforeExpiry ==
    (rpc = "swap" /\ next_url # 0 /\ lastFetch = "skip" /\ is_adhaan_active)
        => time_left >= 0

\* C35: the ambient snapshot has a single writer: a monitor loop that passes
\* its loop test and goes on to take another sample is the newest monitor
\* thread, and it samples the stream of the latest start_ambient_monitor call.
C35_SingleAmbientWriter ==
    [][\A a \in Ambs :
         (apc[a] = "test" /\ apc'[a] = "sample") => (a = namb /\ aurl[a] = amb_arg)]_vars

\* C39: when the detection threads have all ended while a stream URL is
\* cached and the detection-active flag is set, then eventually the flag is
\* cleared or a detection thread is alive again.
C39_FlagFollowsThread ==
    (detection_flag /\ cacheFile # 0 /\ nthreads > 0 /\ AliveThreads = {})
        ~> (~detection_flag \/ AliveThreads # {})

====
